---- MODULE Spec2Model ----
(***************************************************************************)
(* AeyeWire MCP service: the stdio protocol engine (MCPServer.Run and its  *)
(* handlers), the language classifier (LanguageDetector) and the parts of  *)
(* the analysis pipeline the engine drives.                                *)
(***************************************************************************)
EXTENDS Integers, Sequences, FiniteSets, TLC

(***************************************************************************)
(* Bounds of the model.                                                    *)
(***************************************************************************)
\* Number of input lines the environment feeds to Run in one behaviour.
MaxLines == 3
\* Number of successive classifier invocations observed on one input.
MaxInvocations == 2

(***************************************************************************)
(* JSON values on the wire.  Every value is a record of the same shape so  *)
(* that values of different JSON types can be compared.  A JSON integer n  *)
(* is kept as two limbs, n = hi * Limb + lo, because identifiers above     *)
(* 2^53 matter and do not fit one machine integer of the checker.          *)
(***************************************************************************)
Limb == 32768 * 32768

JAbsent == [t |-> "absent", s |-> "", hi |-> 0, lo |-> 0]
JNull == [t |-> "null", s |-> "", hi |-> 0, lo |-> 0]
JStr(x) == [t |-> "string", s |-> x, hi |-> 0, lo |-> 0]
JNum(h, l) == [t |-> "number", s |-> "", hi |-> h, lo |-> l]
JObject == [t |-> "object", s |-> "", hi |-> 0, lo |-> 0]

(***************************************************************************)
(* Go values held in an interface{} after json.Unmarshal: nil, a string,   *)
(* or a float64 (every JSON number decodes to float64).                    *)
(***************************************************************************)
GoNil == [t |-> "nil", s |-> "", hi |-> 0, lo |-> 0]
GoString(x) == [t |-> "string", s |-> x, hi |-> 0, lo |-> 0]
GoFloat64(h, l) == [t |-> "float64", s |-> "", hi |-> h, lo |-> l]
GoMap == [t |-> "map", s |-> "", hi |-> 0, lo |-> 0]

\* 2^k for the small exponents used below.
RECURSIVE Pow2(_)
Pow2(k) == IF k = 0 THEN 1 ELSE 2 * Pow2(k - 1)

\* Distance between neighbouring float64 values at an integer whose high
\* limb is h: 1 below 2^53 (h < 2^23), then doubling with every further bit.
Spacing(h) ==
    LET k == CHOOSE e \in 0..8 : h < 8388608 * Pow2(e) /\ (e = 0 \/ h >= 8388608 * Pow2(e - 1))
    IN Pow2(k)

\* strconv.ParseFloat on a JSON integer: the nearest float64, ties to even.
ParseFloat64(h, l) ==
    LET s == Spacing(h)
        d == l % s
        base == l - d
        up == IF base + s = Limb THEN GoFloat64(h + 1, 0) ELSE GoFloat64(h, base + s)
        down == GoFloat64(h, base)
    IN IF s = 1 THEN GoFloat64(h, l)
       ELSE IF 2 * d < s THEN down
       ELSE IF 2 * d > s THEN up
       ELSE IF (base \div s) % 2 = 0 THEN down ELSE up

\* json.Unmarshal of one JSON value into an interface{}.
UnmarshalAny(j) ==
    CASE j.t = "string" -> GoString(j.s)
      [] j.t = "number" -> ParseFloat64(j.hi, j.lo)
      [] j.t = "object" -> GoMap
      [] OTHER -> GoNil

\* json.Marshal of an interface{} value: a float64 holding an integer is
\* written as that integer's decimal digits.
MarshalAny(g) ==
    CASE g.t = "string" -> JStr(g.s)
      [] g.t = "float64" -> JNum(g.hi, g.lo)
      [] g.t = "map" -> JObject
      [] OTHER -> JNull

\* The type assertion v.(string) with its ok flag.
IsGoString(g) == g.t = "string"
AsGoString(g) == IF g.t = "string" THEN g.s ELSE ""

(***************************************************************************)
(* Input lines.  A line is what bufio.Scanner hands to Run (or fails to):  *)
(* its length in bytes and its text.  The text is kept by its JSON shape:  *)
(*   "empty"   the empty line                                              *)
(*   "space"   white space only                                            *)
(*   "invalid" text that is not JSON, or JSON whose method or params has   *)
(*             the wrong type for MCPRequest                               *)
(*   "null"    the JSON literal null                                       *)
(*   "object"  a JSON object with the members id, method and params        *)
(***************************************************************************)
\* scanner.Buffer(make([]byte, 1024*1024), 10*1024*1024): the longest token.
MaxTokenSize == 10 * 1024 * 1024

\* The code bodies used as inputs (those of the repository's tests, and a
\* few one-signature fragments).
JavaCode == "package com.example;\nimport java.util.*;\npublic class Example {\n    public static void main(String[] args) {}\n}"
CSharpCode == "using System;\nnamespace Example {\n    public class Test {\n        public async Task<int> Method() { return 0; }\n    }\n}"
TsxCode == "import React from 'react';\ninterface Props {\n    name: string;\n}\nconst Component: React.FC<Props> = ({ name }) => {\n    return <div>{name}</div>;\n};"
JsxCode == "import React from 'react';\nconst Component = ({ name }) => {\n    const [state, setState] = useState('');\n    return <div>{name}</div>;\n};"
UnknownCode == "print(\"Hello World\")"
ClassCode == "public class X{}"
PkgClassCode == "package com.example; public class Test {}"
TsxFCCode == "import React from 'react';\nconst Component: React.FC = () => <div />;"
TypeAliasCode == "type Id = string"
OverrideCode == "@Override"

CodeBodies ==
    {"", JavaCode, CSharpCode, TsxCode, JsxCode, UnknownCode, ClassCode,
     PkgClassCode, TsxFCCode, TypeAliasCode, OverrideCode}

FilePaths ==
    {"", "Example.java", "Test.cs", "Component.tsx", "Component.jsx", "utils.ts",
     "utils.js", "example.py", "README", "MAIN.JAVA", "App.Tsx", "src.cs/README",
     "Example.java.txt"}

NoArguments ==
    [code |-> JAbsent, file_path |-> JAbsent, language |-> JAbsent]

Line(size, form, id, method, params, name, arguments, args) ==
    [size |-> size, form |-> form, id |-> id, method |-> method, params |-> params,
     name |-> name, arguments |-> arguments, args |-> args]

PlainLine(size, form) ==
    Line(size, form, JAbsent, JAbsent, "absent", JAbsent, "absent", NoArguments)

\* {"id": id, "method": method}, possibly with a params member of a given shape.
MethodLine(id, method, params) ==
    Line(512, "object", id, method, params, JAbsent, "absent", NoArguments)

\* {"id": id, "method": "tools/call", "params": {"name": name, "arguments": ...}}
CallLine(id, name, arguments, args) ==
    Line(512, "object", id, JStr("tools/call"), "object", name, arguments, args)

\* Correlation identifiers: absent, null, a small integer, a string, and the
\* integer 2^53 + 1.
BigIdHi == 8192 * 1024
RequestIds == {JAbsent, JNull, JNum(0, 7), JStr("req-1"), JNum(BigIdHi, 1)}

MethodNames ==
    {JStr("initialize"), JStr("tools/list"), JStr("ping"), JStr(""), JAbsent}

ToolNames ==
    {JAbsent, JNum(0, 5), JStr("health_check"), JStr("list_supported_languages"),
     JStr("analyze"), JStr("")}

\* Argument objects of analyze_security calls.
InvalidCodes == {JAbsent, JNull, JNum(0, 1), JStr("")}
ValidCodes == {JStr(JavaCode), JStr(ClassCode), JStr(TsxFCCode), JStr(UnknownCode)}
PathArgs == {JAbsent, JStr("Example.java"), JStr("utils.ts"), JNum(0, 3)}
LanguageArgs ==
    {JAbsent, JStr(""), JStr("auto"), JNum(0, 2), JStr("csharp"),
     JStr("react_typescript"), JStr("python"), JStr("unknown")}

AnalyzeArguments ==
    [code : InvalidCodes, file_path : {JAbsent, JStr("Example.java")},
     language : {JAbsent, JStr("csharp")}]
    \cup [code : ValidCodes, file_path : PathArgs, language : {JAbsent, JStr("auto")}]
    \cup [code : {JStr(JavaCode), JStr(UnknownCode)},
          file_path : {JAbsent, JStr("Example.java")}, language : LanguageArgs]

Lines ==
    {PlainLine(0, "empty"), PlainLine(3, "space"), PlainLine(8, "invalid"),
     PlainLine(4, "null"),
     PlainLine(MaxTokenSize - 1, "invalid"), PlainLine(MaxTokenSize, "invalid"),
     PlainLine(MaxTokenSize + 1, "space")}
    \cup {MethodLine(id, m, p) : id \in RequestIds, m \in MethodNames, p \in {"absent", "object"}}
    \cup {MethodLine(id, JNum(0, 1), "absent") : id \in RequestIds}
    \cup {MethodLine(id, JStr("tools/call"), p) : id \in RequestIds, p \in {"absent", "invalid"}}
    \cup {CallLine(id, n, "absent", NoArguments) : id \in RequestIds, n \in ToolNames}
    \cup {CallLine(id, JStr("analyze_security"), a, NoArguments) :
              id \in RequestIds, a \in {"absent", "invalid"}}
    \cup {CallLine(id, JStr("analyze_security"), "object", args) :
              id \in {JNum(0, 7), JNum(BigIdHi, 1)}, args \in AnalyzeArguments}
    \cup {Line(MaxTokenSize, "object", JNum(0, 7), JStr("initialize"), "absent",
               JAbsent, "absent", NoArguments),
          Line(MaxTokenSize - 1, "object", JNum(0, 7), JStr("initialize"), "absent",
               JAbsent, "absent", NoArguments)}

(***************************************************************************)
(* MCPRequest and json.Unmarshal of a line into it.                        *)
(***************************************************************************)
NilArguments == [isMap |-> FALSE, code |-> GoNil, file_path |-> GoNil, language |-> GoNil]
NilParams == [isNil |-> TRUE, name |-> GoNil, arguments |-> NilArguments]

MCPRequest(id, method, params) == [ID |-> id, Method |-> method, Params |-> params]

ZeroRequest == MCPRequest(GoNil, "", NilParams)

\* The Params map of a decoded request: params["name"] and, when
\* params["arguments"] is an object, its members (a missing key reads as nil).
DecodeParams(line) ==
    IF line.params # "object" THEN NilParams
    ELSE [isNil |-> FALSE,
          name |-> UnmarshalAny(line.name),
          arguments |->
              IF line.arguments # "object" THEN NilArguments
              ELSE [isMap |-> TRUE,
                    code |-> UnmarshalAny(line.args.code),
                    file_path |-> UnmarshalAny(line.args.file_path),
                    language |-> UnmarshalAny(line.args.language)]]

\* json.Unmarshal([]byte(line), &request): [err, request], err "" for nil.
\* It fails when the text is not JSON or a member has the wrong type (method
\* not a string, params not an object); null decodes to the zero request.
Unmarshal(line) ==
    CASE line.form \in {"empty", "space"} ->
            [err |-> "unexpected end of JSON input", request |-> ZeroRequest]
      [] line.form = "invalid" ->
            [err |-> "invalid character", request |-> ZeroRequest]
      [] line.form = "null" ->
            [err |-> "", request |-> ZeroRequest]
      [] line.method.t \notin {"string", "absent", "null"} ->
            [err |-> "json: cannot unmarshal into Go struct field MCPRequest.method of type string",
             request |-> ZeroRequest]
      [] line.params = "invalid" ->
            [err |-> "json: cannot unmarshal into Go struct field MCPRequest.params of type map[string]interface {}",
             request |-> ZeroRequest]
      [] OTHER ->
            [err |-> "",
             request |-> MCPRequest(UnmarshalAny(line.id),
                                    IF line.method.t = "string" THEN line.method.s ELSE "",
                                    DecodeParams(line))]

(***************************************************************************)
(* Regular expressions (package regexp, RE2 syntax) as syntax trees, and   *)
(* Regexp.MatchString: whether some substring of the text matches.         *)
(***************************************************************************)
LowerSeq == "abcdefghijklmnopqrstuvwxyz"
UpperSeq == "ABCDEFGHIJKLMNOPQRSTUVWXYZ"
DigitSeq == "0123456789"

Chars(str) == {SubSeq(str, i, i) : i \in 1..Len(str)}

\* The runes U+0001 to U+00FF: the rune n is at position n (the backtick,
\* U+0060, is written as everywhere in the texts of the model).
Latin1 == "\t\n\f\r !\"#$%&'()*+,-./0123456789:;<=>?@ABCDEFGHIJKLMNOPQRSTUVWXYZ[\\]^_~abcdefghijklmnopqrstuvwxyz{|}~ ¡¢£¤¥¦§¨©ª«¬­®¯°±²³´µ¶·¸¹º»¼½¾¿ÀÁÂÃÄÅÆÇÈÉÊËÌÍÎÏÐÑÒÓÔÕÖ×ØÙÚÛÜÝÞßàáâãäåæçèéêëìíîïðñòóôõö÷øùúûüýþÿ"

RuneAt(n) == SubSeq(Latin1, n, n)

\* Two runes beyond U+00FF that fold to ASCII letters, the long s (U+017F)
\* and the Kelvin sign (U+212A): a string of this notation cannot hold
\* them, and the texts of the model write them as U+E0FF and U+E1AA.
LongS == ""
KelvinSign == ""

Lower == Chars(LowerSeq)
Upper == Chars(UpperSeq)
Digit == Chars(DigitSeq)
\* \w and \s of RE2: [0-9A-Za-z_] and [\t\n\f\r ].
WordChars == Lower \cup Upper \cup Digit \cup {"_"}
SpaceChars == {" ", "\t", "\n", "\f", "\r"}

Lit(str) == [op |-> "lit", str |-> str, set |-> {}, kids |-> <<>>]
Cls(set) == [op |-> "in", str |-> "", set |-> set, kids |-> <<>>]
NotCls(set) == [op |-> "notin", str |-> "", set |-> set, kids |-> <<>>]
Cat(kids) == [op |-> "cat", str |-> "", set |-> {}, kids |-> kids]
Alt(kids) == [op |-> "alt", str |-> "", set |-> {}, kids |-> kids]
Star(kid) == [op |-> "star", str |-> "", set |-> {}, kids |-> <<kid>>]
Plus(kid) == Cat(<<kid, Star(kid)>>)
Opt(kid) == Alt(<<kid, Lit("")>>)
Words(strs) == Alt([i \in 1..Len(strs) |-> Lit(strs[i])])

S1 == Plus(Cls(SpaceChars))
S0 == Star(Cls(SpaceChars))
W1 == Plus(Cls(WordChars))
\* "." matches any character but the newline.
Dot == NotCls({"\n"})

\* The positions just after a match of re that starts at a position of from
\* (positions are 1-based; Len(text) + 1 is the end of the text).
RECURSIVE Ends(_, _, _)
RECURSIVE EndsCat(_, _, _, _)
RECURSIVE EndsStar(_, _, _, _)
Ends(re, text, from) ==
    CASE re.op = "lit" ->
            {p + Len(re.str) : p \in {q \in from : /\ q + Len(re.str) - 1 <= Len(text)
                                                  /\ SubSeq(text, q, q + Len(re.str) - 1) = re.str}}
      [] re.op = "in" ->
            {p + 1 : p \in {q \in from : q <= Len(text) /\ SubSeq(text, q, q) \in re.set}}
      [] re.op = "notin" ->
            {p + 1 : p \in {q \in from : q <= Len(text) /\ SubSeq(text, q, q) \notin re.set}}
      [] re.op = "cat" -> EndsCat(re.kids, 1, text, from)
      [] re.op = "alt" -> UNION {Ends(re.kids[k], text, from) : k \in 1..Len(re.kids)}
      [] re.op = "star" -> EndsStar(re.kids[1], text, from, from)

EndsCat(kids, k, text, from) ==
    IF k > Len(kids) \/ from = {} THEN from
    ELSE EndsCat(kids, k + 1, text, Ends(kids[k], text, from))

EndsStar(kid, text, frontier, reached) ==
    LET new == Ends(kid, text, frontier) \ reached
    IN IF new = {} THEN reached ELSE EndsStar(kid, text, new, reached \cup new)

MatchString(re, text) == Ends(re, text, 1..(Len(text) + 1)) # {}

(***************************************************************************)
(* models.LanguageType and the LanguageDetector.                           *)
(***************************************************************************)
CSHARP == "csharp"
REACT_TYPESCRIPT == "react_typescript"
REACT_JAVASCRIPT == "react_javascript"
JAVA == "java"
UNKNOWN == "unknown"

Visibility == Words(<<"public", "private", "protected">>)
ReactImport ==
    Cat(<<Lit("import"), S1, Star(Dot), Lit("from"), S1, Cls({"'", "\""}), Lit("react"),
          Cls({"'", "\""})>>)
JsxTag == Cat(<<Lit("<"), W1, Star(NotCls({">"})), Lit(">")>>)

\* initializePatterns: the signatures of each language, in source order.
JavaPatterns ==
    << Cat(<<Lit("package"), S1, Cls(Lower), Star(Cls(Lower \cup Digit \cup {"_", "."})), Lit(";")>>),
       Cat(<<Lit("import"), S1, Words(<<"java", "javax", "org">>), Lit(".")>>),
       Cat(<<Lit("public"), S1, Words(<<"class", "interface", "enum">>), S1, W1>>),
       Cat(<<Lit("@"), Words(<<"Override", "Autowired", "Entity", "Controller", "Service", "Repository">>)>>),
       Cat(<<Visibility, S1, Opt(Cat(<<Lit("static"), S1>>)), Words(<<"void", "int", "String", "boolean">>)>>) >>

CSharpPatterns ==
    << Cat(<<Lit("using"), S1, Lit("System")>>),
       Cat(<<Lit("namespace"), S1, W1>>),
       Cat(<<Visibility, S1, Words(<<"class", "interface", "struct">>), S1, W1>>),
       Cat(<<Lit("[assembly:"), S0, W1>>),
       Cat(<<Opt(Cat(<<Lit("async"), S1>>)), Lit("Task<")>>) >>

ReactTypeScriptPatterns ==
    << ReactImport,
       Cat(<<Lit("interface"), S1, W1, S0, Lit("{")>>),
       Cat(<<Lit("type"), S1, W1, S0, Lit("=")>>),
       Cat(<<Lit(":"), S0, Opt(Lit("React.")), Lit("FC<")>>),
       JsxTag >>

ReactJavaScriptPatterns ==
    << ReactImport,
       Lit("React.createElement"),
       Words(<<"useState", "useEffect", "useCallback", "useMemo">>),
       JsxTag,
       Cat(<<Lit("export"), S1, Opt(Cat(<<Lit("default"), S1>>)), Words(<<"function", "const">>), S1, W1>>) >>

\* The keys of ld.patterns.
PatternLanguages == {JAVA, CSHARP, REACT_TYPESCRIPT, REACT_JAVASCRIPT}

patterns(lang) ==
    CASE lang = JAVA -> JavaPatterns
      [] lang = CSHARP -> CSharpPatterns
      [] lang = REACT_TYPESCRIPT -> ReactTypeScriptPatterns
      [] lang = REACT_JAVASCRIPT -> ReactJavaScriptPatterns

\* The signatures of lang that match the code, by their index.
MatchingPatterns(lang, code) ==
    {i \in 1..Len(patterns(lang)) : MatchString(patterns(lang)[i], code)}

\* strings.ToLower, on the runes of the model.
\* The upper-case letters beyond ASCII: U+00C0 to U+00DE but the sign U+00D7.
UpperBeyond == {RuneAt(n) : n \in (192..222) \ {215}}

\* unicode.ToLower of one rune.
LowerRune(c) ==
    IF c \in Upper
    THEN SubSeq(LowerSeq, CHOOSE k \in 1..Len(UpperSeq) : SubSeq(UpperSeq, k, k) = c,
                CHOOSE k \in 1..Len(UpperSeq) : SubSeq(UpperSeq, k, k) = c)
    ELSE IF c \in UpperBeyond THEN RuneAt((CHOOSE n \in 192..222 : RuneAt(n) = c) + 32)
    ELSE IF c = KelvinSign THEN "k"
    ELSE c

RECURSIVE ToLower(_)
ToLower(str) ==
    IF str = "" THEN ""
    ELSE LowerRune(SubSeq(str, 1, 1)) \o ToLower(SubSeq(str, 2, Len(str)))

\* filepath.Ext: the suffix starting at the last dot of the last path
\* element, or "" when that element has no dot.
RECURSIVE ExtFrom(_, _)
ExtFrom(path, i) ==
    IF i < 1 \/ SubSeq(path, i, i) = "/" THEN ""
    ELSE IF SubSeq(path, i, i) = "." THEN SubSeq(path, i, Len(path))
    ELSE ExtFrom(path, i - 1)

Ext(path) == ExtFrom(path, Len(path))

\* DetectFromExtension comparing the extension as it is written.
DetectFromExtensionCaseSensitive(filePath) ==
    IF filePath = "" THEN UNKNOWN
    ELSE CASE Ext(filePath) = ".java" -> JAVA
           [] Ext(filePath) = ".cs" -> CSHARP
           [] Ext(filePath) = ".tsx" -> REACT_TYPESCRIPT
           [] Ext(filePath) = ".ts" -> REACT_TYPESCRIPT
           [] Ext(filePath) = ".jsx" -> REACT_JAVASCRIPT
           [] Ext(filePath) = ".js" -> REACT_JAVASCRIPT
           [] OTHER -> UNKNOWN

DetectFromExtension(filePath) ==
    IF filePath = "" THEN UNKNOWN
    ELSE LET ext == ToLower(Ext(filePath))
         IN CASE ext = ".java" -> JAVA
              [] ext = ".cs" -> CSHARP
              [] ext = ".tsx" -> REACT_TYPESCRIPT
              [] ext = ".ts" -> REACT_TYPESCRIPT
              [] ext = ".jsx" -> REACT_JAVASCRIPT
              [] ext = ".js" -> REACT_JAVASCRIPT
              [] OTHER -> UNKNOWN

\* The scores map built by the first loop of DetectFromContent: an entry for
\* every language with at least one matching signature.
ContentScores(code) ==
    LET matched == [lang \in PatternLanguages |-> Cardinality(MatchingPatterns(lang, code))]
    IN [lang \in {l \in PatternLanguages : matched[l] > 0} |-> matched[lang]]

\* The orders in which a range loop may visit the keys of a map: Go leaves
\* the iteration order of a map unspecified.
MapOrders(keys) ==
    {order \in [1..Cardinality(keys) -> keys] :
        \A i, j \in 1..Cardinality(keys) : i # j => order[i] # order[j]}

\* The second loop keeping no running maximum: every language with a
\* positive score replaces the one chosen before.
RECURSIVE MaxScoreLoopLast(_, _, _, _, _)
MaxScoreLoopLast(scores, order, i, maxScore, detectedLang) ==
    IF i > Len(order) THEN detectedLang
    ELSE IF scores[order[i]] > maxScore
         THEN MaxScoreLoopLast(scores, order, i + 1, maxScore, order[i])
         ELSE MaxScoreLoopLast(scores, order, i + 1, maxScore, detectedLang)

\* The second loop of DetectFromContent over the scores in a given order:
\* the running maximum starts at 0 and moves only on a strictly larger score.
RECURSIVE MaxScoreLoop(_, _, _, _, _)
MaxScoreLoop(scores, order, i, maxScore, detectedLang) ==
    IF i > Len(order) THEN detectedLang
    ELSE IF scores[order[i]] > maxScore
         THEN MaxScoreLoop(scores, order, i + 1, scores[order[i]], order[i])
         ELSE MaxScoreLoop(scores, order, i + 1, maxScore, detectedLang)

\* The tags one invocation of DetectFromContent can return.
DetectFromContentOf(scores) ==
    {MaxScoreLoop(scores, order, 1, 0, UNKNOWN) : order \in MapOrders(DOMAIN scores)}

DetectFromContent(code) == DetectFromContentOf(ContentScores(code))

IsReact(lang) == lang = REACT_TYPESCRIPT \/ lang = REACT_JAVASCRIPT

\* The runs of Detect on an input: the tag returned, and the verdicts of the
\* content stage in the order it was invoked (it is invoked a second time
\* when a React extension is not confirmed by the first verdict).
DetectOf(lang, verdicts) ==
    IF lang # UNKNOWN /\ ~IsReact(lang)
    THEN {[ret |-> lang, content |-> <<>>]}
    ELSE IF lang # UNKNOWN
    THEN {[ret |-> lang, content |-> <<c>>] : c \in verdicts \cap {lang}}
         \cup {[ret |-> c2, content |-> <<c1, c2>>] : c1 \in verdicts \ {lang}, c2 \in verdicts}
    ELSE {[ret |-> c, content |-> <<c>>] : c \in verdicts}

Detect(code, filePath) ==
    DetectOf(IF filePath # "" THEN DetectFromExtension(filePath) ELSE UNKNOWN,
             DetectFromContent(code))

\* GetSupportedLanguages: the catalogue, in source order.
GetSupportedLanguages ==
    << [Identifier |-> CSHARP, Description |-> "C# programming language",
        Extensions |-> <<".cs">>],
       [Identifier |-> REACT_TYPESCRIPT, Description |-> "React with TypeScript",
        Extensions |-> <<".tsx", ".ts">>],
       [Identifier |-> REACT_JAVASCRIPT, Description |-> "React with JavaScript",
        Extensions |-> <<".jsx", ".js">>],
       [Identifier |-> JAVA, Description |-> "Java programming language",
        Extensions |-> <<".java">>] >>

(***************************************************************************)
(* Text helpers: strings.Index, strings.LastIndex and strings.TrimSpace    *)
(* (positions are 1-based, 0 means not found).                             *)
(***************************************************************************)
HasAt(text, i, sub) ==
    /\ i >= 1
    /\ i + Len(sub) - 1 <= Len(text)
    /\ SubSeq(text, i, i + Len(sub) - 1) = sub

\* The first position >= from at which sub occurs in text.
IndexFrom(text, sub, from) ==
    LET hits == {i \in from..(Len(text) - Len(sub) + 1) : HasAt(text, i, sub)}
    IN IF hits = {} THEN 0 ELSE CHOOSE i \in hits : \A j \in hits : i <= j

\* The last position >= from at which sub occurs in text.
LastIndexFrom(text, sub, from) ==
    LET hits == {i \in from..(Len(text) - Len(sub) + 1) : HasAt(text, i, sub)}
    IN IF hits = {} THEN 0 ELSE CHOOSE i \in hits : \A j \in hits : i >= j

\* The first position >= i holding a character outside set (Len + 1 if none).
RECURSIVE SkipChars(_, _, _)
SkipChars(text, i, set) ==
    IF i <= Len(text) /\ SubSeq(text, i, i) \in set THEN SkipChars(text, i + 1, set) ELSE i

\* The last position <= i holding a character outside set (0 if none).
RECURSIVE SkipCharsBack(_, _, _)
SkipCharsBack(text, i, set) ==
    IF i >= 1 /\ SubSeq(text, i, i) \in set THEN SkipCharsBack(text, i - 1, set) ELSE i

\* White space of strings.TrimSpace (unicode.IsSpace): \t \n \v \f \r, the
\* space, U+0085 and U+00A0, and U+1680 (the other spaces beyond U+00FF are
\* in no text of the model).
TrimSet == {" ", "\t", "\n", RuneAt(11), "\f", "\r", RuneAt(133), RuneAt(160), " "}

TrimSpace(text) ==
    SubSeq(text, SkipChars(text, 1, TrimSet), SkipCharsBack(text, Len(text), TrimSet))

(***************************************************************************)
(* BaseSecurityAnalyzer: preprocessing.                                    *)
(***************************************************************************)
\* ReplaceAllString of /\*[\s\S]*?\*/ by "": each "/*" is removed up to the
\* nearest following "*/"; a "/*" that is never closed stays.
RECURSIVE RemoveBlockComments(_, _)
RemoveBlockComments(code, from) ==
    LET open == IndexFrom(code, "/*", from)
        close == IF open = 0 THEN 0 ELSE IndexFrom(code, "*/", open + 2)
    IN IF open = 0 \/ close = 0 THEN SubSeq(code, from, Len(code))
       ELSE SubSeq(code, from, open - 1) \o RemoveBlockComments(code, close + 2)

\* ReplaceAllString of //.* by "": each "//" is removed up to the end of
\* its line, the newline stays.
RECURSIVE RemoveLineComments(_, _)
RemoveLineComments(code, from) ==
    LET open == IndexFrom(code, "//", from)
        nl == IF open = 0 THEN 0 ELSE IndexFrom(code, "\n", open)
    IN IF open = 0 THEN SubSeq(code, from, Len(code))
       ELSE IF nl = 0 THEN SubSeq(code, from, open - 1)
       ELSE SubSeq(code, from, open - 1) \o RemoveLineComments(code, nl)

removeComments(code) == RemoveLineComments(RemoveBlockComments(code, 1), 1)

PreprocessCode(code, language) ==
    IF language \in {JAVA, CSHARP, REACT_TYPESCRIPT, REACT_JAVASCRIPT}
    THEN removeComments(code)
    ELSE code

(***************************************************************************)
(* BaseSecurityAnalyzer: extraction of the JSON text from a reply.         *)
(***************************************************************************)
\* A string of this notation cannot hold the grave accent (U+0060): the
\* texts of the model write it as "~", a character none of them uses otherwise.
Backtick == "~"
Fence == Backtick \o Backtick \o Backtick

\* FindStringSubmatch of the code-block expression, a fence, (?:json)?, \s*,
\* the group ([\s\S]*?) and a fence: the leftmost fence that is followed by
\* another one; the group starts after an optional "json" and any white
\* space and ends at the nearest closing fence.  [found, inner].
CodeBlockMatch(response) ==
    LET starts == {i \in 1..Len(response) :
                      HasAt(response, i, Fence) /\ IndexFrom(response, Fence, i + 3) # 0}
    IN IF starts = {} THEN [found |-> FALSE, inner |-> ""]
       ELSE LET i == CHOOSE k \in starts : \A j \in starts : k <= j
                afterTag == IF HasAt(response, i + 3, "json") THEN i + 7 ELSE i + 3
                start == SkipChars(response, afterTag, SpaceChars)
                close == IndexFrom(response, Fence, start)
            IN [found |-> TRUE, inner |-> SubSeq(response, start, close - 1)]

\* FindStringSubmatch of (\[[\s\S]*\]|\{[\s\S]*\}) : the leftmost "[" with a
\* later "]", or "{" with a later "}", up to the last such closer.
BracketMatch(response) ==
    LET closer(i) == IF SubSeq(response, i, i) = "[" THEN LastIndexFrom(response, "]", i + 1)
                     ELSE IF SubSeq(response, i, i) = "{" THEN LastIndexFrom(response, "}", i + 1)
                     ELSE 0
        starts == {i \in 1..Len(response) : closer(i) # 0}
    IN IF starts = {} THEN [found |-> FALSE, inner |-> ""]
       ELSE LET i == CHOOSE k \in starts : \A j \in starts : k <= j
            IN [found |-> TRUE, inner |-> SubSeq(response, i, closer(i))]

\* extractJSON looking for a delimited substring before a fenced block.
extractJSONBracketsFirst(response) ==
    IF BracketMatch(response).found THEN TrimSpace(BracketMatch(response).inner)
    ELSE IF CodeBlockMatch(response).found THEN TrimSpace(CodeBlockMatch(response).inner)
    ELSE response

extractJSON(response) ==
    IF CodeBlockMatch(response).found THEN TrimSpace(CodeBlockMatch(response).inner)
    ELSE IF BracketMatch(response).found THEN TrimSpace(BracketMatch(response).inner)
    ELSE response

(***************************************************************************)
(* encoding/json: the syntax of a JSON text, as a value tree.              *)
(*   [t, s, items, keys]: t the JSON type; s the string value or the       *)
(*   number literal; items the elements of an array or the member values   *)
(*   of an object, keys the member names of an object.                     *)
(***************************************************************************)
JsonSpace == {" ", "\t", "\r", "\n"}

JV(t, str, items, keys) == [t |-> t, s |-> str, items |-> items, keys |-> keys]
NoParse == [ok |-> FALSE, v |-> JV("null", "", <<>>, <<>>), next |-> 0]
Parsed(v, next) == [ok |-> TRUE, v |-> v, next |-> next]

CharAt(text, i) == IF i >= 1 /\ i <= Len(text) THEN SubSeq(text, i, i) ELSE ""

\* The character an escape sequence \c other than \u stands for ("" when
\* there is no such escape).
Unescape(c) ==
    CASE c = "\"" -> "\""
      [] c = "\\" -> "\\"
      [] c = "/" -> "/"
      [] c = "b" -> RuneAt(8)
      [] c = "f" -> "\f"
      [] c = "n" -> "\n"
      [] c = "r" -> "\r"
      [] c = "t" -> "\t"
      [] OTHER -> ""

HexSeq == "0123456789abcdefABCDEF"

HexValue(c) ==
    IF c = "" \/ c \notin Chars(HexSeq) THEN 0 - 1
    ELSE (CHOOSE k \in 1..Len(HexSeq) : SubSeq(HexSeq, k, k) = c) - (IF c \in Upper THEN 7 ELSE 1)

\* getu4: the number of the escape \uXXXX at position i, -1 when there is
\* no such escape there.
getu4(text, i) ==
    IF \/ CharAt(text, i) # "\\"
       \/ CharAt(text, i + 1) # "u"
       \/ \E k \in 2..5 : HexValue(CharAt(text, i + k)) < 0
    THEN 0 - 1
    ELSE HexValue(CharAt(text, i + 2)) * 4096 + HexValue(CharAt(text, i + 3)) * 256
         + HexValue(CharAt(text, i + 4)) * 16 + HexValue(CharAt(text, i + 5))

\* unicode.ReplacementChar
ReplacementChar == "�"

\* The rune of a number: the texts of the model hold the runes U+0001 to
\* U+00FF, the long s and the Kelvin sign, and keep U+FFFD for every other
\* rune.
RuneOf(rr) ==
    CASE rr >= 1 /\ rr <= Len(Latin1) -> RuneAt(rr)
      [] rr = 383 -> LongS
      [] rr = 8490 -> KelvinSign
      [] OTHER -> ReplacementChar

\* utf16.IsSurrogate
IsSurrogate(rr) == rr >= 55296 /\ rr < 57344

\* utf16.DecodeRune(rr, rr1) is a rune: a high surrogate and a low one.
IsSurrogatePair(rr, rr1) == rr >= 55296 /\ rr < 56320 /\ rr1 >= 56320 /\ rr1 < 57344

\* The escape \uXXXX of number rr at position i, rr1 the number of the
\* escape after it: [str, next], with next = 0 when there is no escape.
UnescapeRune(rr, rr1, i) ==
    IF rr < 0 THEN [str |-> "", next |-> 0]
    ELSE IF IsSurrogate(rr)
         THEN IF IsSurrogatePair(rr, rr1) THEN [str |-> ReplacementChar, next |-> i + 12]
              ELSE [str |-> ReplacementChar, next |-> i + 6]
    ELSE [str |-> RuneOf(rr), next |-> i + 6]

\* The escape sequence at position i (a backslash): [str, next].
UnescapeAt(text, i) ==
    IF CharAt(text, i + 1) = "u" THEN UnescapeRune(getu4(text, i), getu4(text, i + 6), i)
    ELSE IF Unescape(CharAt(text, i + 1)) = "" THEN [str |-> "", next |-> 0]
    ELSE [str |-> Unescape(CharAt(text, i + 1)), next |-> i + 2]

\* The control characters, which a string literal may not hold.
ControlChars == {RuneAt(n) : n \in 1..31}

\* The rest of a string literal from position i (after the opening quote).
RECURSIVE ParseStringBody(_, _, _)
ParseStringBody(text, i, acc) ==
    LET c == CharAt(text, i)
    IN IF c = "" \/ c \in ControlChars THEN NoParse
       ELSE IF c = "\"" THEN Parsed(JV("string", acc, <<>>, <<>>), i + 1)
       ELSE IF c = "\\"
            THEN IF UnescapeAt(text, i).next = 0 THEN NoParse
                 ELSE ParseStringBody(text, UnescapeAt(text, i).next,
                                      acc \o UnescapeAt(text, i).str)
       ELSE ParseStringBody(text, i + 1, acc \o c)

\* A number literal: -? (0 | [1-9][0-9]*) (. [0-9]+)? ([eE] [+-]? [0-9]+)?
\* Each part is given by the position after it; 0 says the part is malformed.
NumberInt(text, i) ==
    IF CharAt(text, i) = "0" THEN i + 1
    ELSE IF SkipChars(text, i, Digit) > i THEN SkipChars(text, i, Digit)
    ELSE 0

NumberDigits(text, i) == IF SkipChars(text, i, Digit) > i THEN SkipChars(text, i, Digit) ELSE 0

NumberFrac(text, i) ==
    IF i = 0 THEN 0
    ELSE IF CharAt(text, i) = "." THEN NumberDigits(text, i + 1)
    ELSE i

NumberExp(text, i) ==
    IF i = 0 THEN 0
    ELSE IF CharAt(text, i) \in {"e", "E"}
         THEN NumberDigits(text, IF CharAt(text, i + 1) \in {"+", "-"} THEN i + 2 ELSE i + 1)
    ELSE i

NumberEnd(text, i) ==
    NumberExp(text, NumberFrac(text, NumberInt(text, IF CharAt(text, i) = "-" THEN i + 1 ELSE i)))

NumberTo(text, i, end) ==
    IF end = 0 THEN NoParse
    ELSE Parsed(JV("number", SubSeq(text, i, end - 1), <<>>, <<>>), end)

ParseNumber(text, i) == NumberTo(text, i, NumberEnd(text, i))

RECURSIVE ParseValue(_, _)
RECURSIVE ParseElements(_, _, _)
RECURSIVE ParseMembers(_, _, _, _)

\* The value that starts at position i.
ParseValueAt(text, i, c) ==
    CASE c = "\"" -> ParseStringBody(text, i + 1, "")
      [] c = "[" ->
             IF CharAt(text, SkipChars(text, i + 1, JsonSpace)) = "]"
             THEN Parsed(JV("array", "", <<>>, <<>>), SkipChars(text, i + 1, JsonSpace) + 1)
             ELSE ParseElements(text, i + 1, <<>>)
      [] c = "{" ->
             IF CharAt(text, SkipChars(text, i + 1, JsonSpace)) = "}"
             THEN Parsed(JV("object", "", <<>>, <<>>), SkipChars(text, i + 1, JsonSpace) + 1)
             ELSE ParseMembers(text, i + 1, <<>>, <<>>)
      [] c = "-" \/ c \in Digit -> ParseNumber(text, i)
      [] HasAt(text, i, "true") -> Parsed(JV("bool", "true", <<>>, <<>>), i + 4)
      [] HasAt(text, i, "false") -> Parsed(JV("bool", "false", <<>>, <<>>), i + 5)
      [] HasAt(text, i, "null") -> Parsed(JV("null", "", <<>>, <<>>), i + 4)
      [] OTHER -> NoParse

ParseValueFrom(text, i) == ParseValueAt(text, i, CharAt(text, i))

\* The value that starts at position at, after white space.
ParseValue(text, at) == ParseValueFrom(text, SkipChars(text, at, JsonSpace))

\* After the element e of an array, the next token is at j.
ParseElementsAfter(text, items, e, j) ==
    IF ~e.ok THEN NoParse
    ELSE IF CharAt(text, j) = "," THEN ParseElements(text, j + 1, Append(items, e.v))
    ELSE IF CharAt(text, j) = "]" THEN Parsed(JV("array", "", Append(items, e.v), <<>>), j + 1)
    ELSE NoParse

ParseElementsOf(text, items, e) ==
    ParseElementsAfter(text, items, e, SkipChars(text, e.next, JsonSpace))

\* The elements of an array from position at (after "[" or ","), up to "]".
ParseElements(text, at, items) == ParseElementsOf(text, items, ParseValue(text, at))

\* After the member k : e of an object, the next token is at j.
ParseMembersAfter(text, keys, items, k, e, j) ==
    IF ~e.ok THEN NoParse
    ELSE IF CharAt(text, j) = ","
         THEN ParseMembers(text, j + 1, Append(keys, k.v.s), Append(items, e.v))
    ELSE IF CharAt(text, j) = "}"
         THEN Parsed(JV("object", "", Append(items, e.v), Append(keys, k.v.s)), j + 1)
    ELSE NoParse

ParseMemberValue(text, keys, items, k, e) ==
    ParseMembersAfter(text, keys, items, k, e, SkipChars(text, e.next, JsonSpace))

ParseMemberColon(text, keys, items, k, colon) ==
    ParseMemberValue(text, keys, items, k,
                     IF k.ok /\ CharAt(text, colon) = ":" THEN ParseValue(text, colon + 1)
                     ELSE NoParse)

ParseMemberKey(text, keys, items, k) ==
    ParseMemberColon(text, keys, items, k, SkipChars(text, k.next, JsonSpace))

ParseMembersFrom(text, i, keys, items) ==
    ParseMemberKey(text, keys, items,
                   IF CharAt(text, i) = "\"" THEN ParseStringBody(text, i + 1, "") ELSE NoParse)

\* The members of an object from position at (after "{" or ","), up to "}".
ParseMembers(text, at, keys, items) ==
    ParseMembersFrom(text, SkipChars(text, at, JsonSpace), keys, items)

ParseWhole(text, r) ==
    IF r.ok /\ SkipChars(text, r.next, JsonSpace) = Len(text) + 1 THEN r ELSE NoParse

\* The whole text as one JSON value: ok is FALSE on a syntax error.
ParseJSON(text) == ParseWhole(text, ParseValue(text, 1))

(***************************************************************************)
(* encoding/json: decoding a value tree into []models.SecurityIssue.  A    *)
(* value of the wrong type for its target is an UnmarshalTypeError: the    *)
(* decoder skips it, goes on, and Unmarshal returns the error at the end.  *)
(***************************************************************************)
LOW == "LOW"
MEDIUM == "MEDIUM"
HIGH == "HIGH"
CRITICAL == "CRITICAL"

\* The zero models.SecurityIssue.  An int is held as its decimal numeral
\* ("0", "7", "-3"): the 64 bits of a Go int are beyond the integers of TLC.
ZeroIssue ==
    [ID |-> "", Title |-> "", Description |-> "", Severity |-> "", LineNumber |-> "0",
     ColumnNumber |-> "0", FilePath |-> "", CodeSnippet |-> "", Remediation |-> "",
     References |-> <<>>]

\* n > 0 for the numeral of an int.
IsPositive(n) == n # "0" /\ CharAt(n, 1) # "-"

DigitValue(c) == CHOOSE d \in 0..9 : SubSeq(DigitSeq, d + 1, d + 1) = c

\* a <= b, for two digit strings of the same length.
RECURSIVE DigitsLeq(_, _)
DigitsLeq(a, b) ==
    IF a = "" THEN TRUE
    ELSE IF CharAt(a, 1) # CharAt(b, 1) THEN DigitValue(CharAt(a, 1)) < DigitValue(CharAt(b, 1))
    ELSE DigitsLeq(SubSeq(a, 2, Len(a)), SubSeq(b, 2, Len(b)))

\* The largest int64 and the magnitude of the smallest one.
MaxInt64 == "9223372036854775807"
MinInt64Magnitude == "9223372036854775808"

\* The digits of a literal after its sign, and those after the leading zeros.
Unsigned(lit) == IF CharAt(lit, 1) \in {"-", "+"} THEN SubSeq(lit, 2, Len(lit)) ELSE lit
Significant(digits) == SubSeq(digits, SkipChars(digits, 1, {"0"}), Len(digits))

\* The magnitude of a literal is within the limit.
WithinLimit(digits, limit) ==
    Len(digits) < Len(limit) \/ (Len(digits) = Len(limit) /\ DigitsLeq(digits, limit))

\* strconv.ParseInt(lit, 10, 64) returns no error: an optional sign, digits
\* only, and a value of the int64 range.
IsIntLiteral(lit) ==
    /\ Unsigned(lit) # ""
    /\ SkipChars(Unsigned(lit), 1, Digit) = Len(Unsigned(lit)) + 1
    /\ WithinLimit(Significant(Unsigned(lit)),
                   IF CharAt(lit, 1) = "-" THEN MinInt64Magnitude ELSE MaxInt64)

\* The numeral of the int a literal stands for.
ParseInt(lit) ==
    IF Significant(Unsigned(lit)) = "" THEN "0"
    ELSE IF CharAt(lit, 1) = "-" THEN "-" \o Significant(Unsigned(lit))
    ELSE Significant(Unsigned(lit))

(***************************************************************************)
(* A slice as the decoder holds it, [n, back]: n the length, back what the *)
(* backing array holds from its start (the elements, then those a shorter  *)
(* array of an earlier member left behind).  The decoder decodes the       *)
(* elements of an array into the elements the slice already has, and       *)
(* growing the slice up to its capacity brings the old ones back.          *)
(***************************************************************************)
NilSlice == [n |-> 0, back |-> <<>>]

Elements(slice) == SubSeq(slice.back, 1, slice.n)

\* What the decoder finds at index i of a slice it grows to hold it.
Stored(slice, i, zero) == IF i <= Len(slice.back) THEN slice.back[i] ELSE zero

\* The zero SecurityIssue in the hands of the decoder.
ZeroElement == [ZeroIssue EXCEPT !.References = NilSlice]

\* A JSON value decoded into a string field holding old: [err, val].
DecodeString(v, old) ==
    CASE v.t = "string" -> [err |-> FALSE, val |-> v.s]
      [] v.t = "null" -> [err |-> FALSE, val |-> old]
      [] OTHER -> [err |-> TRUE, val |-> old]

DecodeInt(v, old) ==
    CASE v.t = "number" /\ IsIntLiteral(v.s) -> [err |-> FALSE, val |-> ParseInt(v.s)]
      [] v.t = "null" -> [err |-> FALSE, val |-> old]
      [] OTHER -> [err |-> TRUE, val |-> old]

\* The backing array after the elements of an array were decoded into it.
Overwritten(decoded, old) ==
    [i \in 1..(IF Len(decoded) > Len(old.back) THEN Len(decoded) ELSE Len(old.back)) |->
        IF i <= Len(decoded) THEN decoded[i].val ELSE old.back[i]]

\* The slice made of the decodings of the elements of an array into the
\* slice old; an empty array makes a new empty slice.
DecodedSlice(decoded, old) ==
    [err |-> \E i \in 1..Len(decoded) : decoded[i].err,
     val |-> IF Len(decoded) = 0 THEN NilSlice
             ELSE [n |-> Len(decoded), back |-> Overwritten(decoded, old)]]

\* A JSON value decoded into a []string holding old.
DecodeStrings(v, old) ==
    CASE v.t = "array" ->
            DecodedSlice([i \in 1..Len(v.items) |-> DecodeString(v.items[i], Stored(old, i, ""))],
                         old)
      [] v.t = "null" -> [err |-> FALSE, val |-> NilSlice]
      [] OTHER -> [err |-> TRUE, val |-> old]

\* The decoding d of a member stored in a field of the issue.
SetField(decoded, field, d) ==
    [err |-> decoded.err \/ d.err, val |-> [decoded.val EXCEPT ![field] = d.val]]

DecodeField(decoded, name, v) ==
    CASE name = "id" -> SetField(decoded, "ID", DecodeString(v, decoded.val.ID))
      [] name = "title" -> SetField(decoded, "Title", DecodeString(v, decoded.val.Title))
      [] name = "description" ->
             SetField(decoded, "Description", DecodeString(v, decoded.val.Description))
      [] name = "severity" -> SetField(decoded, "Severity", DecodeString(v, decoded.val.Severity))
      [] name = "line_number" ->
             SetField(decoded, "LineNumber", DecodeInt(v, decoded.val.LineNumber))
      [] name = "column_number" ->
             SetField(decoded, "ColumnNumber", DecodeInt(v, decoded.val.ColumnNumber))
      [] name = "file_path" -> SetField(decoded, "FilePath", DecodeString(v, decoded.val.FilePath))
      [] name = "code_snippet" ->
             SetField(decoded, "CodeSnippet", DecodeString(v, decoded.val.CodeSnippet))
      [] name = "remediation" ->
             SetField(decoded, "Remediation", DecodeString(v, decoded.val.Remediation))
      [] name = "references" ->
             SetField(decoded, "References", DecodeStrings(v, decoded.val.References))
      [] OTHER -> decoded

\* The simple case folding of a rune, as far as it reaches a json tag: the
\* letters fold to lower case, and the long s (U+017F) folds to "s" as the
\* Kelvin sign (U+212A) folds to "k".
FoldRune(c) == IF c = LongS THEN "s" ELSE LowerRune(c)

RECURSIVE FoldName(_)
FoldName(key) ==
    IF key = "" THEN "" ELSE FoldRune(SubSeq(key, 1, 1)) \o FoldName(SubSeq(key, 2, Len(key)))

\* One object member decoded into the field of the issue its key names
\* (the json tag, compared under case folding); other keys are ignored.
DecodeMember(decoded, key, v) == DecodeField(decoded, FoldName(key), v)

RECURSIVE DecodeMembers(_, _, _)
DecodeMembers(v, k, decoded) ==
    IF k > Len(v.keys) THEN decoded
    ELSE DecodeMembers(v, k + 1, DecodeMember(decoded, v.keys[k], v.items[k]))

\* A JSON value decoded into a SecurityIssue holding old.
DecodeIssue(v, old) ==
    CASE v.t = "object" -> DecodeMembers(v, 1, [err |-> FALSE, val |-> old])
      [] v.t = "null" -> [err |-> FALSE, val |-> old]
      [] OTHER -> [err |-> TRUE, val |-> old]

\* A JSON value decoded into a []SecurityIssue holding old.
DecodeIssues(v, old) ==
    CASE v.t = "array" ->
            DecodedSlice([i \in 1..Len(v.items) |->
                             DecodeIssue(v.items[i], Stored(old, i, ZeroElement))],
                         old)
      [] v.t = "null" -> [err |-> FALSE, val |-> NilSlice]
      [] OTHER -> [err |-> TRUE, val |-> old]

\* The issues of a decoded slice, as the program sees them.
IssuesOfSlice(slice) ==
    [i \in 1..slice.n |-> [slice.back[i] EXCEPT !.References = Elements(@)]]

Unmarshalled(d) == [err |-> d.err, issues |-> IssuesOfSlice(d.val)]

\* json.Unmarshal([]byte(jsonStr), &issues)
UnmarshalIssuesOf(r) ==
    IF ~r.ok THEN [err |-> TRUE, issues |-> <<>>] ELSE Unmarshalled(DecodeIssues(r.v, NilSlice))

UnmarshalIssues(jsonStr) == UnmarshalIssuesOf(ParseJSON(jsonStr))

\* The decoding d of a member stored in the slice of the wrapper.
Merged(decoded, d) == [err |-> decoded.err \/ d.err, val |-> d.val]

\* One member of an object decoded into the wrapper struct {Issues}, whose
\* slice is decoded: a member named "issues" (under case folding) is decoded
\* into the slice, other members are ignored.
DecodeWrapperMember(key, item, decoded) ==
    IF FoldName(key) = "issues" THEN Merged(decoded, DecodeIssues(item, decoded.val))
    ELSE decoded

RECURSIVE DecodeWrapperMembers(_, _, _)
DecodeWrapperMembers(v, k, decoded) ==
    IF k > Len(v.keys) THEN decoded
    ELSE DecodeWrapperMembers(v, k + 1, DecodeWrapperMember(v.keys[k], v.items[k], decoded))

\* json.Unmarshal([]byte(jsonStr), &wrapper)
UnmarshalWrapperOf(r) ==
    CASE ~r.ok -> [err |-> TRUE, issues |-> <<>>]
      [] r.v.t = "object" ->
            Unmarshalled(DecodeWrapperMembers(r.v, 1, [err |-> FALSE, val |-> NilSlice]))
      [] r.v.t = "null" -> [err |-> FALSE, issues |-> <<>>]
      [] OTHER -> [err |-> TRUE, issues |-> <<>>]

UnmarshalWrapper(jsonStr) == UnmarshalWrapperOf(ParseJSON(jsonStr))

\* fmt.Sprintf("%d", n)
RECURSIVE Digits(_)
Digits(n) ==
    IF n < 10 THEN SubSeq(DigitSeq, n + 1, n + 1)
    ELSE Digits(n \div 10) \o SubSeq(DigitSeq, (n % 10) + 1, (n % 10) + 1)

Itoa(n) == IF n < 0 THEN "-" \o Digits(0 - n) ELSE Digits(n)

\* The enrichment loop with the index of the range loop as the number.
EnrichZeroBased(issues, filePath) ==
    [i \in 1..Len(issues) |->
        [issues[i] EXCEPT
            !.FilePath = IF issues[i].FilePath = "" THEN filePath ELSE @,
            !.ID = IF issues[i].ID = "" THEN "ISSUE-" \o Itoa(i - 1) ELSE @]]

\* The enrichment loop of parseIssuesFromResponse.
Enrich(issues, filePath) ==
    [i \in 1..Len(issues) |->
        [issues[i] EXCEPT
            !.FilePath = IF issues[i].FilePath = "" THEN filePath ELSE @,
            !.ID = IF issues[i].ID = "" THEN "ISSUE-" \o Itoa(i) ELSE @]]

EnrichDecoded(decoded, filePath) ==
    IF decoded.err THEN [err |-> TRUE, issues |-> <<>>]
    ELSE [err |-> FALSE, issues |-> Enrich(decoded.issues, filePath)]

\* The array is tried first and the wrapper object second.
parseIssuesOf(direct, wrapper, filePath) ==
    IF ~direct.err THEN EnrichDecoded(direct, filePath) ELSE EnrichDecoded(wrapper, filePath)

parseIssuesFromJSON(jsonStr, filePath) ==
    parseIssuesOf(UnmarshalIssues(jsonStr), UnmarshalWrapper(jsonStr), filePath)

\* [err, issues]
parseIssuesFromResponse(response, filePath) ==
    parseIssuesFromJSON(extractJSON(response), filePath)

(***************************************************************************)
(* BaseSecurityAnalyzer: metadata, summary and the markdown report.        *)
(***************************************************************************)
\* The number of issues among the first n whose severity is sev.
RECURSIVE CountSeverity(_, _, _)
CountSeverity(issues, n, sev) ==
    IF n = 0 THEN 0
    ELSE CountSeverity(issues, n - 1, sev) + (IF issues[n].Severity = sev THEN 1 ELSE 0)

\* time.Since(startTime).String(): the elapsed time is the environment's; the
\* model keeps one fixed reading of the clock.
AnalysisTime == "1.5s"

generateMetadata(issues, language) ==
    [AnalysisTime |-> AnalysisTime,
     IssuesFound |-> Len(issues),
     DetectedLanguage |-> language,
     CriticalCount |-> CountSeverity(issues, Len(issues), CRITICAL),
     HighCount |-> CountSeverity(issues, Len(issues), HIGH),
     MediumCount |-> CountSeverity(issues, Len(issues), MEDIUM),
     LowCount |-> CountSeverity(issues, Len(issues), LOW),
     Errors |-> <<>>]

\* generateSummary without the case of an empty list.
generateSummaryAlwaysCounts(issues) ==
    "Found " \o Itoa(Len(issues)) \o " security issue(s): "
    \o Itoa(CountSeverity(issues, Len(issues), CRITICAL)) \o " critical, "
    \o Itoa(CountSeverity(issues, Len(issues), HIGH)) \o " high, "
    \o Itoa(CountSeverity(issues, Len(issues), MEDIUM)) \o " medium, "
    \o Itoa(CountSeverity(issues, Len(issues), LOW)) \o " low."

generateSummary(issues) ==
    IF Len(issues) = 0 THEN "No security issues detected."
    ELSE "Found " \o Itoa(Len(issues)) \o " security issue(s): "
         \o Itoa(CountSeverity(issues, Len(issues), CRITICAL)) \o " critical, "
         \o Itoa(CountSeverity(issues, Len(issues), HIGH)) \o " high, "
         \o Itoa(CountSeverity(issues, Len(issues), MEDIUM)) \o " medium, "
         \o Itoa(CountSeverity(issues, Len(issues), LOW)) \o " low."

RECURSIVE JoinReferences(_, _)
JoinReferences(refs, k) ==
    IF k > Len(refs) THEN "" ELSE "- " \o refs[k] \o "\n" \o JoinReferences(refs, k + 1)

writeIssue(issue) ==
    "### " \o issue.Title \o "\n\n"
    \o "**Severity**: " \o issue.Severity \o "\n\n"
    \o "**Description**: " \o issue.Description \o "\n\n"
    \o (IF IsPositive(issue.LineNumber)
        THEN "**Location**: Line " \o issue.LineNumber
             \o (IF IsPositive(issue.ColumnNumber) THEN ", Column " \o issue.ColumnNumber ELSE "")
             \o "\n\n"
        ELSE "")
    \o (IF issue.CodeSnippet # ""
        THEN "**Code Snippet**:\n" \o Fence \o "\n" \o issue.CodeSnippet \o "\n" \o Fence \o "\n\n"
        ELSE "")
    \o (IF issue.Remediation # "" THEN "**Remediation**: " \o issue.Remediation \o "\n\n" ELSE "")
    \o (IF Len(issue.References) > 0
        THEN "**References**:\n" \o JoinReferences(issue.References, 1) \o "\n"
        ELSE "")
    \o "---\n\n"

\* The issues of one severity, in their order in the result.
IssuesOf(issues, sev) == SelectSeq(issues, LAMBDA issue : issue.Severity = sev)

RECURSIVE WriteIssues(_, _)
WriteIssues(issues, k) ==
    IF k > Len(issues) THEN "" ELSE writeIssue(issues[k]) \o WriteIssues(issues, k + 1)

\* One severity section of the report: nothing when the group is empty.
Section(header, group) ==
    IF Len(group) > 0 THEN header \o WriteIssues(group, 1) ELSE ""

\* The report with the high section written before the critical one.
FormatAsMarkdownHighFirst(result) ==
    "# Security Analysis Report\n\n"
    \o "**Language**: " \o result.Language \o "\n\n"
    \o "**Analysis Time**: " \o result.AnalysisMetadata.AnalysisTime \o "\n\n"
    \o "## Summary\n\n" \o result.Summary \o "\n\n"
    \o (IF Len(result.Issues) = 0 THEN "No security issues found.\n"
        ELSE Section("## High Severity Issues\n\n", IssuesOf(result.Issues, HIGH))
             \o Section("## Critical Issues\n\n", IssuesOf(result.Issues, CRITICAL))
             \o Section("## Medium Severity Issues\n\n", IssuesOf(result.Issues, MEDIUM))
             \o Section("## Low Severity Issues\n\n", IssuesOf(result.Issues, LOW)))

\* The report with the closing line whenever no section is written.
FormatAsMarkdownNoSection(result) ==
    "# Security Analysis Report\n\n"
    \o "**Language**: " \o result.Language \o "\n\n"
    \o "**Analysis Time**: " \o result.AnalysisMetadata.AnalysisTime \o "\n\n"
    \o "## Summary\n\n" \o result.Summary \o "\n\n"
    \o (IF \A k \in 1..Len(result.Issues) :
              result.Issues[k].Severity \notin {CRITICAL, HIGH, MEDIUM, LOW}
        THEN "No security issues found.\n"
        ELSE Section("## Critical Issues\n\n", IssuesOf(result.Issues, CRITICAL))
             \o Section("## High Severity Issues\n\n", IssuesOf(result.Issues, HIGH))
             \o Section("## Medium Severity Issues\n\n", IssuesOf(result.Issues, MEDIUM))
             \o Section("## Low Severity Issues\n\n", IssuesOf(result.Issues, LOW)))

FormatAsMarkdown(result) ==
    "# Security Analysis Report\n\n"
    \o "**Language**: " \o result.Language \o "\n\n"
    \o "**Analysis Time**: " \o result.AnalysisMetadata.AnalysisTime \o "\n\n"
    \o "## Summary\n\n" \o result.Summary \o "\n\n"
    \o (IF Len(result.Issues) = 0 THEN "No security issues found.\n"
        ELSE Section("## Critical Issues\n\n", IssuesOf(result.Issues, CRITICAL))
             \o Section("## High Severity Issues\n\n", IssuesOf(result.Issues, HIGH))
             \o Section("## Medium Severity Issues\n\n", IssuesOf(result.Issues, MEDIUM))
             \o Section("## Low Severity Issues\n\n", IssuesOf(result.Issues, LOW)))

(***************************************************************************)
(* services.LLMService: what the backend can answer, and what Analyze and  *)
(* HealthCheck make of it.                                                 *)
(*   [created, transport, status, body, content]: created FALSE when       *)
(*   http.NewRequest fails; transport FALSE when client.Do fails; status   *)
(*   the HTTP status; body "unreadable" (io.ReadAll fails), "undecodable"  *)
(*   (not an LLMResponse), "nochoices" (empty choices list) or "content";  *)
(*   content the text of the first choice, and the text of the body when   *)
(*   the status is not 200.                                                *)
(***************************************************************************)
StatusOK == 200

Reply(transport, status, body, content) ==
    [created |-> TRUE, transport |-> transport, status |-> status, body |-> body,
     content |-> content]

\* No request could be made of the base URL.
NotCreated ==
    [created |-> FALSE, transport |-> FALSE, status |-> 0, body |-> "none", content |-> ""]

\* NewLLMService: the base URL, from the environment variable LMSTUDIO_BASE_URL.
NewLLMService(env) == IF env = "" THEN "http://localhost:1234" ELSE env

\* The URLs Analyze and HealthCheck make of the base URL.
AnalyzeURL(base) == base \o "/v1/chat/completions"
ModelsURL(base) == base \o "/v1/models"

(***************************************************************************)
(* net/url.Parse, as far as http.NewRequest and client.Do depend on it:    *)
(* whether it returns an error, the scheme and the host.                   *)
(***************************************************************************)
\* strings.Cut: the text before the first sep (all of it when there is
\* none), and the text after it.
Before(text, sep) ==
    IF IndexFrom(text, sep, 1) = 0 THEN text ELSE SubSeq(text, 1, IndexFrom(text, sep, 1) - 1)

After(text, sep) ==
    IF IndexFrom(text, sep, 1) = 0 THEN ""
    ELSE SubSeq(text, IndexFrom(text, sep, 1) + Len(sep), Len(text))

\* The text from the last sep on ("" when there is none), and the text
\* after it (all of it when there is none).
FromLast(text, sep) ==
    IF LastIndexFrom(text, sep, 1) = 0 THEN ""
    ELSE SubSeq(text, LastIndexFrom(text, sep, 1), Len(text))

AfterLast(text, sep) ==
    IF LastIndexFrom(text, sep, 1) = 0 THEN text
    ELSE SubSeq(text, LastIndexFrom(text, sep, 1) + Len(sep), Len(text))

\* stringContainsCTLByte: a byte below 0x20, or 0x7f.
ContainsCTLByte(text) == Chars(text) \cap (ControlChars \cup {RuneAt(127)}) # {}

AlphaNum == Lower \cup Upper \cup Digit
SchemeChars == AlphaNum \cup {"+", "-", "."}

\* getScheme: [err, scheme, rest].
getScheme(rawURL) ==
    CASE CharAt(rawURL, 1) = ":" -> [err |-> TRUE, scheme |-> "", rest |-> ""]
      [] CharAt(rawURL, 1) \in Upper \cup Lower
         /\ CharAt(rawURL, SkipChars(rawURL, 1, SchemeChars)) = ":" ->
            [err |-> FALSE,
             scheme |-> SubSeq(rawURL, 1, SkipChars(rawURL, 1, SchemeChars) - 1),
             rest |-> SubSeq(rawURL, SkipChars(rawURL, 1, SchemeChars) + 1, Len(rawURL))]
      [] OTHER -> [err |-> FALSE, scheme |-> "", rest |-> rawURL]

\* The ASCII characters a host may hold as they are (shouldEscape is false
\* of them in the mode encodeHost); the characters beyond ASCII all may.
HostChars ==
    AlphaNum \cup {"!", "$", "&", "'", "(", ")", "*", "+", ",", ";", "=", ":", "[", "]", "<",
                   ">", "\"", "-", "_", ".", "~"}
Ascii == {RuneAt(n) : n \in 1..127}

\* The number of the escape %XX at position i, -1 when it is not well formed.
EscapeValue(text, i) ==
    IF HexValue(CharAt(text, i + 1)) < 0 \/ HexValue(CharAt(text, i + 2)) < 0 THEN 0 - 1
    ELSE 16 * HexValue(CharAt(text, i + 1)) + HexValue(CharAt(text, i + 2))

\* unescape returns no error, in the modes of a path, a fragment and a user
\* name: every "%" starts a well-formed escape.
ValidEscapes(text) ==
    \A i \in 1..Len(text) : CharAt(text, i) = "%" => EscapeValue(text, i) >= 0

\* unescape in the mode encodeHost: an escape stands for a byte beyond ASCII
\* or is "%25", and the other characters are those of a host.
ValidHostText(text) ==
    \A i \in 1..Len(text) :
        IF CharAt(text, i) = "%"
        THEN EscapeValue(text, i) >= 128 \/ EscapeValue(text, i) = 37
        ELSE CharAt(text, i) \notin Ascii \ HostChars

\* unescape in the mode encodeZone: an escape stands for "%", a space or a
\* character of a host.
ValidZoneText(text) ==
    \A i \in 1..Len(text) :
        IF CharAt(text, i) = "%"
        THEN \/ EscapeValue(text, i) \in {37, 32}
             \/ /\ EscapeValue(text, i) \in (1..127) \ {96}
                /\ RuneAt(EscapeValue(text, i)) \in HostChars
        ELSE CharAt(text, i) \notin Ascii \ HostChars

\* validOptionalPort: nothing, or a colon and digits.
validOptionalPort(port) ==
    port = "" \/ (CharAt(port, 1) = ":" /\ SkipChars(port, 2, Digit) = Len(port) + 1)

\* parseHost of a host in brackets, close the position of its last "]" and
\* zone that of the first "%25" before it (0 when there is none).
ValidBracketHost(host, close, zone) ==
    /\ close # 0
    /\ validOptionalPort(SubSeq(host, close + 1, Len(host)))
    /\ IF zone # 0
       THEN /\ ValidHostText(SubSeq(host, 1, zone - 1))
            /\ ValidZoneText(SubSeq(host, zone, close - 1))
            /\ ValidHostText(SubSeq(host, close, Len(host)))
       ELSE ValidHostText(host)

\* parseHost returns no error.
ValidHost(host) ==
    IF CharAt(host, 1) = "["
    THEN ValidBracketHost(host, LastIndexFrom(host, "]", 1),
                          IndexFrom(SubSeq(host, 1, LastIndexFrom(host, "]", 1) - 1), "%25", 1))
    ELSE validOptionalPort(FromLast(host, ":")) /\ ValidHostText(host)

\* validUserinfo
UserinfoChars ==
    AlphaNum \cup {"-", ".", "_", ":", "~", "!", "$", "&", "'", "(", ")", "*", "+", ",", ";",
                   "=", "%", "@"}

ValidUserinfo(userinfo) == Chars(userinfo) \subseteq UserinfoChars /\ ValidEscapes(userinfo)

\* parseAuthority returns no error: the host after the last "@", the user
\* information before it.
ValidAuthority(authority) ==
    /\ ValidHost(AfterLast(authority, "@"))
    /\ LastIndexFrom(authority, "@", 1) # 0
       => ValidUserinfo(SubSeq(authority, 1, LastIndexFrom(authority, "@", 1) - 1))

\* The rest of parse, after the scheme and before the query: [err, scheme, host].
ParseRest(scheme, rest) ==
    CASE CharAt(rest, 1) # "/" /\ scheme # "" -> [err |-> FALSE, scheme |-> scheme, host |-> ""]
      [] CharAt(rest, 1) # "/" /\ IndexFrom(Before(rest, "/"), ":", 1) # 0 ->
            [err |-> TRUE, scheme |-> "", host |-> ""]
      [] HasAt(rest, 1, "//") /\ (scheme # "" \/ ~HasAt(rest, 1, "///")) ->
            [err |-> \/ ~ValidAuthority(Before(SubSeq(rest, 3, Len(rest)), "/"))
                     \/ ~ValidEscapes(SubSeq(rest, 2 + Len(Before(SubSeq(rest, 3, Len(rest)), "/")) + 1,
                                             Len(rest))),
             scheme |-> scheme,
             host |-> AfterLast(Before(SubSeq(rest, 3, Len(rest)), "/"), "@")]
      [] OTHER -> [err |-> ~ValidEscapes(rest), scheme |-> scheme, host |-> ""]

ParseScheme(s) ==
    IF s.err THEN [err |-> TRUE, scheme |-> "", host |-> ""]
    ELSE ParseRest(ToLower(s.scheme), Before(s.rest, "?"))

\* url.Parse: the fragment is cut off, and checked after the rest.
ParseURL(rawURL) ==
    IF ContainsCTLByte(Before(rawURL, "#")) THEN [err |-> TRUE, scheme |-> "", host |-> ""]
    ELSE IF ~ValidEscapes(After(rawURL, "#")) THEN [err |-> TRUE, scheme |-> "", host |-> ""]
    ELSE ParseScheme(getScheme(Before(rawURL, "#")))

\* http.NewRequest returns an error: the URL does not parse.
NewRequestFails(url) == ParseURL(url).err

\* The round trip of the transport returns an error whatever the backend
\* does: the scheme is not "http" or "https", or there is no host (a host
\* that is only a colon is none, the empty port being removed).
RoundTripFails(url) ==
    \/ ParseURL(url).scheme \notin {"http", "https"}
    \/ ParseURL(url).host \in {"", ":"}

\* The answers to a request made of a URL.
RepliesTo(url, replies) ==
    IF NewRequestFails(url) THEN {NotCreated}
    ELSE IF RoundTripFails(url) THEN {r \in replies : ~r.transport}
    ELSE replies

\* Texts of a first choice.
ReplyTexts ==
    {"[]",
     "No issues.",
     "{\"note\": \"nothing found\"}",
     "Findings:\n" \o Fence \o "json\n[{\"title\": \"SQL Injection\", \"severity\": \"HIGH\", \"line_number\": 3}, {\"id\": \"X-1\", \"title\": \"Weak hash\", \"severity\": \"LOW\"}]\n" \o Fence}

AnalyzeReplies ==
    {Reply(FALSE, 0, "undecodable", ""), Reply(TRUE, 500, "undecodable", "model not loaded"),
     Reply(TRUE, StatusOK, "unreadable", ""), Reply(TRUE, StatusOK, "undecodable", ""),
     Reply(TRUE, StatusOK, "nochoices", "")}
    \cup {Reply(TRUE, StatusOK, "content", text) : text \in ReplyTexts}

ProbeReplies ==
    {Reply(FALSE, 0, "undecodable", ""), Reply(TRUE, StatusOK, "content", ""),
     Reply(TRUE, 204, "content", ""), Reply(TRUE, 500, "undecodable", "")}

\* LLMService.Analyze: [err, text], err "" on success.
Analyze(reply) ==
    CASE ~reply.created -> [err |-> "failed to create request", text |-> ""]
      [] ~reply.transport -> [err |-> "failed to send request", text |-> ""]
      [] reply.status # StatusOK ->
            [err |-> "LLM service returned status " \o Itoa(reply.status) \o ": "
                     \o reply.content,
             text |-> ""]
      [] reply.body = "unreadable" -> [err |-> "failed to read response", text |-> ""]
      [] reply.body = "undecodable" -> [err |-> "failed to unmarshal response", text |-> ""]
      [] reply.body = "nochoices" -> [err |-> "no choices in LLM response", text |-> ""]
      [] OTHER -> [err |-> "", text |-> reply.content]

\* HealthCheck taking any answer of the backend for a sign of life.
HealthCheckAnyStatus(reply) == reply.created /\ reply.transport

\* LLMService.HealthCheck: the bool it returns.
HealthCheck(reply) == reply.created /\ reply.transport /\ reply.status = StatusOK

\* AnalyzeWithLLM after the backend has answered: [err, result].
NoResult ==
    [Language |-> "", Issues |-> <<>>, Summary |-> "", AnalysisMetadata |-> generateMetadata(<<>>, "")]

AnalysisOf(language, parsed) ==
    IF parsed.err
    THEN [err |-> "failed to parse LLM response: failed to parse issues", result |-> NoResult]
    ELSE [err |-> "",
          result |-> [Language |-> language,
                      Issues |-> parsed.issues,
                      Summary |-> generateSummary(parsed.issues),
                      AnalysisMetadata |-> generateMetadata(parsed.issues, language)]]

\* AnalyzeWithLLM reporting every failure by the same error.
AnalyzeResponseOneError(language, filePath, response) ==
    IF response.err # "" \/ parseIssuesFromResponse(response.text, filePath).err
    THEN [err |-> "analysis failed", result |-> NoResult]
    ELSE AnalysisOf(language, parseIssuesFromResponse(response.text, filePath))

AnalyzeResponse(language, filePath, response) ==
    IF response.err # ""
    THEN [err |-> "LLM analysis failed: " \o response.err, result |-> NoResult]
    ELSE AnalysisOf(language, parseIssuesFromResponse(response.text, filePath))

AnalyzeWithLLM(language, filePath, reply) == AnalyzeResponse(language, filePath, Analyze(reply))

(***************************************************************************)
(* The analyzers and their rule prompts (the prompt texts are kept by      *)
(* their first line; the React prompt gains a TypeScript section for the   *)
(* TypeScript analyzer).                                                   *)
(***************************************************************************)
JavaRulesPrompt ==
    "Analyze the following Java code for security vulnerabilities. Check for these 25+ security issues:"
CSharpRulesPrompt ==
    "Analyze the following C# code for security vulnerabilities. Check for these 20+ security issues:"
ReactRulesPrompt ==
    "Analyze the following React code for security vulnerabilities. Check for these security issues:"
TypeScriptRules == "\n\nTYPESCRIPT-SPECIFIC:"

NewJavaAnalyzer == [type |-> "JavaAnalyzer", Language |-> JAVA]
NewCSharpAnalyzer == [type |-> "CSharpAnalyzer", Language |-> CSHARP]
NewReactAnalyzer(language) == [type |-> "ReactAnalyzer", Language |-> language]

GetSecurityRulesPrompt(analyzer) ==
    CASE analyzer.type = "JavaAnalyzer" -> JavaRulesPrompt
      [] analyzer.type = "CSharpAnalyzer" -> CSharpRulesPrompt
      [] OTHER -> IF analyzer.Language = REACT_TYPESCRIPT
                  THEN ReactRulesPrompt \o TypeScriptRules
                  ELSE ReactRulesPrompt

\* NewMCPServer: the analyzers map.
\* The registry without the Java analyzer.
NewMCPServerWithoutJava ==
    (CSHARP :> NewCSharpAnalyzer)
    @@ (REACT_TYPESCRIPT :> NewReactAnalyzer(REACT_TYPESCRIPT))
    @@ (REACT_JAVASCRIPT :> NewReactAnalyzer(REACT_JAVASCRIPT))

NewMCPServer ==
    (JAVA :> NewJavaAnalyzer) @@ (CSHARP :> NewCSharpAnalyzer)
    @@ (REACT_TYPESCRIPT :> NewReactAnalyzer(REACT_TYPESCRIPT))
    @@ (REACT_JAVASCRIPT :> NewReactAnalyzer(REACT_JAVASCRIPT))

(***************************************************************************)
(* MCPResponse and the line written for it.                                *)
(***************************************************************************)
VERSION == "1.0.0"
SERVER_NAME == "aeyewire_mcp"

\* models.HealthCheckResponse
HealthCheckResponse(status, version, llmStatus, languages) ==
    [Status |-> status, Version |-> version, LLMServiceStatus |-> llmStatus,
     SupportedLanguages |-> languages]

\* A result payload; kind "nil" is the nil interface value.  The text of a
\* tool result is kept as the report (analyze_security) or as the value it
\* is the JSON text of (health, catalogue).
NilResult ==
    [kind |-> "nil", protocolVersion |-> "", serverInfo |-> <<>>, tools |-> <<>>,
     enum |-> <<>>, text |-> "", health |-> HealthCheckResponse("", "", "", <<>>),
     catalogue |-> <<>>]

InitializeResult ==
    [NilResult EXCEPT !.kind = "initialize", !.protocolVersion = "2024-11-05",
                      !.serverInfo = <<SERVER_NAME, VERSION>>]

ToolsListResult ==
    [NilResult EXCEPT !.kind = "tools",
                      !.tools = <<"analyze_security", "health_check", "list_supported_languages">>,
                      !.enum = <<"csharp", "react_typescript", "react_javascript", "java", "auto">>]

ReportResult(markdown) == [NilResult EXCEPT !.kind = "report", !.text = markdown]

HealthResult(health) == [NilResult EXCEPT !.kind = "health", !.health = health]

LanguagesResult(languages) == [NilResult EXCEPT !.kind = "languages", !.catalogue = languages]

MCPError(code, message) == [isNil |-> FALSE, code |-> code, message |-> message]
NilError == [isNil |-> TRUE, code |-> 0, message |-> ""]

MCPResponse(id, result, error) == [ID |-> id, Result |-> result, Error |-> error]

\* Marshal with the omitempty options of result and error forgotten: both
\* members are always written, null when nil.
MarshalAllMembers(response) ==
    [members |-> {"jsonrpc", "id", "result", "error"},
     id |-> MarshalAny(response.ID),
     result |-> response.Result,
     error |-> response.Error]

\* json.Marshal(response): the members of the JSON object written; result
\* and error carry omitempty and are left out when nil.
Marshal(response) ==
    [members |-> {"jsonrpc", "id"}
                 \cup (IF response.Result.kind # "nil" THEN {"result"} ELSE {})
                 \cup (IF ~response.Error.isNil THEN {"error"} ELSE {}),
     id |-> MarshalAny(response.ID),
     result |-> response.Result,
     error |-> response.Error]

\* No line written.
NoResponse == [members |-> {}, id |-> JAbsent, result |-> NilResult, error |-> NilError]

sendResponse(id, result) == Marshal(MCPResponse(id, result, NilError))

sendError(id, code, message) == Marshal(MCPResponse(id, NilResult, MCPError(code, message)))

(***************************************************************************)
(* The handlers.  A handler runs to its response or to its first blocking  *)
(* call; what it did is a step:                                            *)
(*   resp      the line written (NoResponse while it waits)                *)
(*   handler   the handler handleRequest or handleToolsCall dispatched to  *)
(*   detected  the runs of languageDetector.Detect                         *)
(*   language  the resolved language tag                                   *)
(*   wait      "" or the call it blocks in: "analyze" or "probe"           *)
(*   call      the request sent to the backend                             *)
(***************************************************************************)
NoCall == [endpoint |-> "", prompt |-> "", code |-> ""]

Step(resp, handler, detected, language, wait, call) ==
    [resp |-> resp, handler |-> handler, detected |-> detected, language |-> language,
     wait |-> wait, call |-> call]

Done(resp, handler) == Step(resp, handler, <<>>, "", "", NoCall)

handleInitialize(request) ==
    {Done(sendResponse(request.ID, InitializeResult), "initialize")}

handleToolsList(request) ==
    {Done(sendResponse(request.ID, ToolsListResult), "tools/list")}

handleListSupportedLanguages(requestID) ==
    {Done(sendResponse(requestID, LanguagesResult(GetSupportedLanguages)),
          "list_supported_languages")}

\* handleHealthCheck up to llmService.HealthCheck().
handleHealthCheck(requestID) ==
    {Step(NoResponse, "health_check", <<>>, "", "probe",
          [endpoint |-> "/v1/models", prompt |-> "", code |-> ""])}

\* handleHealthCheck once the probe has answered; the range loop over the
\* analyzers map lists the tags in some order.
handleHealthCheckReturn(requestID, registry, reply) ==
    {sendResponse(requestID,
                  HealthResult(HealthCheckResponse(
                      "healthy", VERSION,
                      IF HealthCheck(reply) THEN "available" ELSE "unavailable",
                      supportedLanguages))) :
        supportedLanguages \in MapOrders(DOMAIN registry)}

\* handleAnalyzeSecurity after the code check, for one run of the language
\* resolution.
AnalyzeResolved(requestID, registry, code, language, detected) ==
    IF language \notin DOMAIN registry
    THEN Step(sendError(requestID, -32602, "Unsupported language: " \o language),
              "analyze_security", detected, language, "", NoCall)
    ELSE Step(NoResponse, "analyze_security", detected, language, "analyze",
              [endpoint |-> "/v1/chat/completions",
               prompt |-> GetSecurityRulesPrompt(registry[language]),
               code |-> PreprocessCode(code, registry[language].Language)])

\* handleAnalyzeSecurity without the test for an empty code.
handleAnalyzeSecurityEmptyCode(requestID, registry, args) ==
    IF ~IsGoString(args.code)
    THEN {Done(sendError(requestID, -32602, "Missing or invalid 'code' parameter"),
               "analyze_security")}
    ELSE IF AsGoString(args.language) # "" /\ AsGoString(args.language) # "auto"
    THEN {AnalyzeResolved(requestID, registry, AsGoString(args.code),
                          AsGoString(args.language), <<>>)}
    ELSE {AnalyzeResolved(requestID, registry, AsGoString(args.code), d.ret, <<d>>) :
             d \in Detect(AsGoString(args.code), AsGoString(args.file_path))}

\* handleAnalyzeSecurity taking "auto" for a language tag like any other.
handleAnalyzeSecurityAutoTag(requestID, registry, args) ==
    IF ~IsGoString(args.code) \/ AsGoString(args.code) = ""
    THEN {Done(sendError(requestID, -32602, "Missing or invalid 'code' parameter"),
               "analyze_security")}
    ELSE IF AsGoString(args.language) # ""
    THEN {AnalyzeResolved(requestID, registry, AsGoString(args.code),
                          AsGoString(args.language), <<>>)}
    ELSE {AnalyzeResolved(requestID, registry, AsGoString(args.code), d.ret, <<d>>) :
             d \in Detect(AsGoString(args.code), AsGoString(args.file_path))}

\* handleAnalyzeSecurity up to LLMService.Analyze's client.Do.
handleAnalyzeSecurity(requestID, registry, args) ==
    LET code == AsGoString(args.code)
        filePath == AsGoString(args.file_path)
        languageStr == AsGoString(args.language)
    IN IF ~IsGoString(args.code) \/ code = ""
       THEN {Done(sendError(requestID, -32602, "Missing or invalid 'code' parameter"),
                  "analyze_security")}
       ELSE IF languageStr # "" /\ languageStr # "auto"
       THEN {AnalyzeResolved(requestID, registry, code, languageStr, <<>>)}
       ELSE {AnalyzeResolved(requestID, registry, code, d.ret, <<d>>) : d \in Detect(code, filePath)}

\* handleAnalyzeSecurity once the backend has answered.
AnalyzeAnswer(requestID, analysis) ==
    IF analysis.err # ""
    THEN sendError(requestID, -32603, "Analysis failed: " \o analysis.err)
    ELSE sendResponse(requestID, ReportResult(FormatAsMarkdown(analysis.result)))

handleAnalyzeSecurityReturn(requestID, registry, args, language, reply) ==
    AnalyzeAnswer(requestID,
                  AnalyzeWithLLM(registry[language].Language, AsGoString(args.file_path), reply))

\* handleToolsCall reporting an unknown tool as an unknown method.
handleToolsCallMethodNotFound(request, registry) ==
    IF ~IsGoString(request.Params.name)
    THEN {Done(sendError(request.ID, -32602, "Invalid tool name"), "")}
    ELSE CASE AsGoString(request.Params.name) = "analyze_security" ->
                 handleAnalyzeSecurity(request.ID, registry, request.Params.arguments)
           [] AsGoString(request.Params.name) = "health_check" -> handleHealthCheck(request.ID)
           [] AsGoString(request.Params.name) = "list_supported_languages" ->
                 handleListSupportedLanguages(request.ID)
           [] OTHER -> {Done(sendError(request.ID, -32601,
                                       "Unknown tool: " \o AsGoString(request.Params.name)), "")}

handleToolsCall(request, registry) ==
    LET name == request.Params.name
        toolName == AsGoString(name)
    IN IF ~IsGoString(name)
       THEN {Done(sendError(request.ID, -32602, "Invalid tool name"), "")}
       ELSE CASE toolName = "analyze_security" ->
                    handleAnalyzeSecurity(request.ID, registry, request.Params.arguments)
              [] toolName = "health_check" -> handleHealthCheck(request.ID)
              [] toolName = "list_supported_languages" -> handleListSupportedLanguages(request.ID)
              [] OTHER -> {Done(sendError(request.ID, -32602, "Unknown tool: " \o toolName), "")}

handleRequest(request, registry) ==
    CASE request.Method = "initialize" -> handleInitialize(request)
      [] request.Method = "tools/list" -> handleToolsList(request)
      [] request.Method = "tools/call" -> handleToolsCall(request, registry)
      [] OTHER -> {Done(sendError(request.ID, -32601, "Method not found: " \o request.Method), "")}

\* bufio.Scanner with Buffer(1 MB, 10 MB): Scan delivers a line only if it
\* is shorter than the largest buffer; otherwise it fails with ErrTooLong.
ScanDelivers(line) == line.size < MaxTokenSize

\* The loop body of Run after json.Unmarshal.
RunDecoded(decoded, registry) ==
    IF decoded.err # ""
    THEN {Done(sendError(GoNil, -32700, "Parse error: " \o decoded.err), "")}
    ELSE handleRequest(decoded.request, registry)

\* The body of the loop of Run for a delivered line.
RunBody(line, registry) ==
    IF line.form = "empty" THEN {Done(NoResponse, "")}
    ELSE RunDecoded(Unmarshal(line), registry)

(***************************************************************************)
(* The state of the server process and of its input and output.            *)
(*   pc        where Run is: "scan" blocked in scanner.Scan, "analyze" or  *)
(*             "probe" blocked in the backend call of a handler, "loop" at *)
(*             the end of the loop body, "exit" after the loop             *)
(*   eof       the input stream has ended                                  *)
(*   nread     the number of input lines consumed                          *)
(*   line      the input line of the current iteration                     *)
(*   resp      the response line written in the current iteration          *)
(*   nonblank  the positions in the input of the lines that are not empty  *)
(*   answered  for each line written to the output, the position of the    *)
(*             input line it was written for                               *)
(*   handler, detected, language: what the current iteration did (see Step)*)
(*   calls     the calls of the LLM service the current iteration made     *)
(*   reply     the answer of the backend to the call of this iteration     *)
(*   analyzers the analyzers map of the server                             *)
(*   baseURL   the base URL of the LLM service                             *)
(* The other variables are those of the language detector called on its    *)
(* own:                                                                    *)
(*   dcode, dpath  the code body and the file path                         *)
(*   dret      the invocations made so far: the function and its result    *)
(* and those of a BaseSecurityAnalyzer called on its own:                  *)
(*   ain       the code body, the language of the analyzer, the file path  *)
(*             and the answer of the backend                               *)
(*   aret      the invocations made so far: the function and its result    *)
(***************************************************************************)
VARIABLES pc, eof, nread, line, resp, nonblank, answered, handler, detected, language,
          calls, reply, analyzers, baseURL, dcode, dpath, dret, ain, aret

vars == <<pc, eof, nread, line, resp, nonblank, answered, handler, detected, language,
          calls, reply, analyzers, baseURL, dcode, dpath, dret, ain, aret>>

serverVars == <<pc, eof, nread, line, resp, nonblank, answered, handler, detected, language,
                calls, reply, analyzers, baseURL>>

detectorVars == <<dcode, dpath, dret>>

analyzerVars == <<ain, aret>>

NoLine == PlainLine(0, "none")
NoReply == Reply(FALSE, 0, "none", "")

AnalyzerInput(code, lang, filePath, r) ==
    [code |-> code, language |-> lang, filePath |-> filePath, reply |-> r]

NoInput == AnalyzerInput("", "", "", NoReply)

ServerInit ==
    /\ pc = "scan"
    /\ eof = FALSE
    /\ nread = 0
    /\ line = NoLine
    /\ resp = NoResponse
    /\ nonblank = <<>>
    /\ answered = <<>>
    /\ handler = ""
    /\ detected = <<>>
    /\ language = ""
    /\ calls = <<>>
    /\ reply = NoReply
    /\ analyzers = NewMCPServer

\* Values of the environment variable LMSTUDIO_BASE_URL: not set, set with a
\* newline at its end, and set without a scheme.
BaseURLEnvs == {"", "http://localhost:1234\n", "localhost:1234"}

Init ==
    /\ ServerInit
    /\ baseURL \in {NewLLMService(env) : env \in BaseURLEnvs}
    /\ dcode = ""
    /\ dpath = ""
    /\ dret = <<>>
    /\ ain = NoInput
    /\ aret = <<>>

\* scanner.Scan() returns false because the input has ended.
EndOfInput ==
    /\ pc = "scan"
    /\ pc' = "exit"
    /\ eof' = TRUE
    /\ UNCHANGED <<nread, line, resp, nonblank, answered, handler, detected, language,
                   calls, reply, analyzers, baseURL>>
    /\ UNCHANGED detectorVars
    /\ UNCHANGED analyzerVars

\* scanner.Scan() meets a line longer than its buffer may grow: it returns
\* false, and Run leaves the loop and reports scanner.Err().
ScanTooLong ==
    /\ pc = "scan"
    /\ nread < MaxLines
    /\ \E l \in Lines :
          /\ ~ScanDelivers(l)
          /\ line' = l
    /\ pc' = "exit"
    /\ nread' = nread + 1
    /\ nonblank' = Append(nonblank, nread + 1)
    /\ UNCHANGED <<eof, resp, answered, handler, detected, language, calls, reply, analyzers, baseURL>>
    /\ UNCHANGED detectorVars
    /\ UNCHANGED analyzerVars

\* scanner.Scan() delivers a line and the loop body runs, to the end of the
\* body or to the backend call of the handler.
ScanLine ==
    /\ pc = "scan"
    /\ nread < MaxLines
    /\ \E l \in Lines :
          /\ ScanDelivers(l)
          /\ line' = l
          /\ nonblank' = IF l.form = "empty" THEN nonblank ELSE Append(nonblank, nread + 1)
          /\ \E step \in RunBody(l, analyzers) :
                /\ pc' = IF step.wait = "" THEN "loop" ELSE step.wait
                /\ resp' = step.resp
                /\ answered' = IF step.resp.members # {} THEN Append(answered, nread + 1)
                               ELSE answered
                /\ handler' = step.handler
                /\ detected' = step.detected
                /\ language' = step.language
                /\ calls' = IF step.wait = "" THEN <<>> ELSE <<step.call>>
    /\ nread' = nread + 1
    /\ UNCHANGED <<eof, reply, analyzers, baseURL>>
    /\ UNCHANGED detectorVars
    /\ UNCHANGED analyzerVars

\* The request of the current iteration.
Request == Unmarshal(line).request

\* handleAnalyzeSecurity taking the analyzer of a language out of the
\* analyzers map when its backend call has failed.
AnalyzeReturnsUnregisters ==
    /\ pc = "analyze"
    /\ \E r \in RepliesTo(AnalyzeURL(baseURL), AnalyzeReplies) :
          /\ reply' = r
          /\ resp' = handleAnalyzeSecurityReturn(Request.ID, analyzers,
                                                 Request.Params.arguments, language, r)
          /\ analyzers' = IF Analyze(r).err # ""
                          THEN [tag \in DOMAIN analyzers \ {language} |-> analyzers[tag]]
                          ELSE analyzers
    /\ pc' = "loop"
    /\ answered' = Append(answered, nread)
    /\ UNCHANGED <<eof, nread, line, nonblank, handler, detected, language, calls, baseURL>>
    /\ UNCHANGED detectorVars
    /\ UNCHANGED analyzerVars

\* The backend answers LLMService.Analyze; handleAnalyzeSecurity finishes.
AnalyzeReturns ==
    /\ pc = "analyze"
    /\ \E r \in RepliesTo(AnalyzeURL(baseURL), AnalyzeReplies) :
          /\ reply' = r
          /\ resp' = handleAnalyzeSecurityReturn(Request.ID, analyzers,
                                                 Request.Params.arguments, language, r)
    /\ pc' = "loop"
    /\ answered' = Append(answered, nread)
    /\ UNCHANGED <<eof, nread, line, nonblank, handler, detected, language, calls, analyzers, baseURL>>
    /\ UNCHANGED detectorVars
    /\ UNCHANGED analyzerVars

\* The backend answers LLMService.HealthCheck; handleHealthCheck finishes.
ProbeReturns ==
    /\ pc = "probe"
    /\ \E r \in RepliesTo(ModelsURL(baseURL), ProbeReplies) :
          /\ reply' = r
          /\ resp' \in handleHealthCheckReturn(Request.ID, analyzers, r)
    /\ pc' = "loop"
    /\ answered' = Append(answered, nread)
    /\ UNCHANGED <<eof, nread, line, nonblank, handler, detected, language, calls, analyzers, baseURL>>
    /\ UNCHANGED detectorVars
    /\ UNCHANGED analyzerVars

\* The loop body has ended; Run goes back to scanner.Scan() and the locals
\* of the iteration are gone.
Loop ==
    /\ pc = "loop"
    /\ pc' = "scan"
    /\ line' = NoLine
    /\ resp' = NoResponse
    /\ handler' = ""
    /\ detected' = <<>>
    /\ language' = ""
    /\ calls' = <<>>
    /\ reply' = NoReply
    /\ UNCHANGED <<eof, nread, nonblank, answered, analyzers, baseURL>>
    /\ UNCHANGED detectorVars
    /\ UNCHANGED analyzerVars

Next ==
    \/ EndOfInput
    \/ ScanTooLong
    \/ ScanLine
    \/ AnalyzeReturns
    \/ ProbeReturns
    \/ Loop

Spec == Init /\ [][Next]_vars

(***************************************************************************)
(* The language detector called on its own: one code body and one file     *)
(* path, and up to MaxInvocations calls of its functions on them.          *)
(***************************************************************************)
Invocation(fn, ret, content) == [fn |-> fn, ret |-> ret, content |-> content]

InitDetect ==
    /\ ServerInit
    /\ baseURL = NewLLMService("")
    /\ dcode \in CodeBodies
    /\ dpath \in FilePaths
    /\ dret = <<>>
    /\ ain = NoInput
    /\ aret = <<>>

\* languageDetector.DetectFromContent(dcode)
CallDetectFromContent ==
    /\ Len(dret) < MaxInvocations
    /\ \E tag \in DetectFromContent(dcode) :
          dret' = Append(dret, Invocation("DetectFromContent", tag, <<tag>>))
    /\ UNCHANGED <<dcode, dpath>>
    /\ UNCHANGED serverVars
    /\ UNCHANGED analyzerVars

\* languageDetector.DetectFromExtension(dpath)
CallDetectFromExtension ==
    /\ Len(dret) < MaxInvocations
    /\ dret' = Append(dret, Invocation("DetectFromExtension", DetectFromExtension(dpath), <<>>))
    /\ UNCHANGED <<dcode, dpath>>
    /\ UNCHANGED serverVars
    /\ UNCHANGED analyzerVars

\* languageDetector.Detect(dcode, dpath)
CallDetect ==
    /\ Len(dret) < MaxInvocations
    /\ \E d \in Detect(dcode, dpath) :
          dret' = Append(dret, Invocation("Detect", d.ret, d.content))
    /\ UNCHANGED <<dcode, dpath>>
    /\ UNCHANGED serverVars
    /\ UNCHANGED analyzerVars

NextDetect ==
    \/ CallDetectFromExtension
    \/ CallDetectFromContent
    \/ CallDetect

SpecDetect == InitDetect /\ [][NextDetect]_vars

(***************************************************************************)
(* A BaseSecurityAnalyzer called on its own: one code body, one language   *)
(* tag, one file path and one answer of the backend, and up to             *)
(* MaxInvocations calls of its functions on them.                          *)
(***************************************************************************)
\* Code bodies with comments.
LineCommentCode == "int a = 1; // first\nint b = 2;\n// whole line\nreturn a;"
BlockCommentCode == "int a;\n/* one\n   two */\nint b;"
DocCommentCode == "/** doc */\nclass A {}"
OpenCommentCode == "a /* never closed\nb"
UrlCode == "String u = \"http://example.com\";\nint n;"

CommentBodies ==
    {"", JavaCode, LineCommentCode, BlockCommentCode, DocCommentCode, OpenCommentCode, UrlCode}

PreprocessLanguages == PatternLanguages \cup {UNKNOWN, "python"}

\* Replies that are an array of findings with given severities.
SeverityNames == {CRITICAL, HIGH, MEDIUM, LOW, "INFO", "high"}

SeverityLists ==
    {<<>>} \cup {<<a>> : a \in SeverityNames} \cup {<<a, b>> : a, b \in SeverityNames}
    \cup {<<CRITICAL, a, LOW>> : a \in SeverityNames}

RECURSIVE FindingsFrom(_, _)
FindingsFrom(sevs, k) ==
    IF k > Len(sevs) THEN ""
    ELSE (IF k > 1 THEN ", " ELSE "")
         \o "{\"title\": \"Finding " \o Itoa(k) \o "\", \"severity\": \"" \o sevs[k] \o "\"}"
         \o FindingsFrom(sevs, k + 1)

FindingsText(sevs) == "[" \o FindingsFrom(sevs, 1) \o "]"

SeverityReplies == {Reply(TRUE, StatusOK, "content", FindingsText(sevs)) : sevs \in SeverityLists}

\* Replies whose findings carry identifiers and file paths of the backend:
\* an array, and an object with an issues member.
SuppliedFindingsText ==
    "[{\"id\": \"ISSUE-2\", \"title\": \"Injection\", \"severity\": \"HIGH\", "
    \o "\"file_path\": \"lib/Other.java\", \"line_number\": 7, \"references\": [\"CWE-89\"]}, "
    \o "{\"title\": \"Weak hash\", \"severity\": \"LOW\"}]"

WrappedFindingsText ==
    "{\"issues\": [{\"title\": \"Open redirect \\u0026 XSS\", \"severity\": \"MEDIUM\"}, "
    \o "{\"id\": \"\", \"title\": \"Weak hash\", \"file_path\": \"\"}, "
    \o "{\"id\": \"B-7\", \"title\": \"Injection\", \"severity\": \"CRITICAL\"}]}"

\* An object whose issues member comes twice, the second time under a key
\* written with the long s: the second array is decoded into the findings
\* of the first.
RepeatedFindingsText ==
    "{\"issues\": [{\"id\": \"A-1\", \"references\": [\"CWE-79\", \"CWE-80\"]}, {\"id\": \"A-2\"}], "
    \o "\"I\\u017fsues\": [{\"title\": \"Injection\", \"severity\": \"HIGH\", "
    \o "\"line_number\": 9223372036854775807, \"references\": [null]}]}"

SuppliedReplies ==
    {Reply(TRUE, StatusOK, "content", text) :
        text \in {SuppliedFindingsText, WrappedFindingsText, RepeatedFindingsText}}

\* What the backend of the pipeline can answer.
AnalyzerReplies == AnalyzeReplies \cup SeverityReplies \cup SuppliedReplies

AnalyzerInputs ==
    {AnalyzerInput(c, l, "", Reply(TRUE, StatusOK, "content", "[]")) :
        c \in CommentBodies, l \in PreprocessLanguages}
    \cup {AnalyzerInput(JavaCode, l, f, r) :
             l \in {JAVA, REACT_TYPESCRIPT}, f \in {"", "Example.java"},
             r \in AnalyzerReplies \cup {NotCreated}}

NoAnalysis == [err |-> "", result |-> NoResult]

\* An invocation: the function, the text it was given, the text it returned
\* and, for the pipeline, the analysis it returned.
AnalyzerInvocation(fn, arg, text, analysis) ==
    [fn |-> fn, arg |-> arg, text |-> text, analysis |-> analysis]

\* The answer of the backend is one the base URL of the service allows.
InitAnalyzer ==
    /\ ServerInit
    /\ baseURL \in {NewLLMService(env) : env \in BaseURLEnvs}
    /\ dcode = ""
    /\ dpath = ""
    /\ dret = <<>>
    /\ ain \in {a \in AnalyzerInputs : a.reply \in RepliesTo(AnalyzeURL(baseURL), AnalyzerReplies)}
    /\ aret = <<>>

\* ba.PreprocessCode(code, language)
CallPreprocessCode ==
    /\ Len(aret) < MaxInvocations
    /\ aret' = Append(aret, AnalyzerInvocation("PreprocessCode", ain.code,
                                               PreprocessCode(ain.code, ain.language),
                                               NoAnalysis))
    /\ UNCHANGED ain
    /\ UNCHANGED serverVars
    /\ UNCHANGED detectorVars

\* ba.AnalyzeWithLLM(code, filePath, prompt), the backend answering with
\* ain.reply: the code sent to the backend and the result.
CallAnalyzeWithLLM ==
    /\ Len(aret) < MaxInvocations
    /\ aret' = Append(aret, AnalyzerInvocation("AnalyzeWithLLM", ain.code,
                                               PreprocessCode(ain.code, ain.language),
                                               AnalyzeWithLLM(ain.language, ain.filePath,
                                                              ain.reply)))
    /\ UNCHANGED ain
    /\ UNCHANGED serverVars
    /\ UNCHANGED detectorVars

NextAnalyzer ==
    \/ CallPreprocessCode
    \/ CallAnalyzeWithLLM

SpecAnalyzer == InitAnalyzer /\ [][NextAnalyzer]_vars

(***************************************************************************)
(* extractJSON called on its own: one text, given to it as it is, inside a *)
(* fenced json block, or inside prose.                                     *)
(***************************************************************************)
\* An array of one finding whose code snippet is a fenced block.
SnippetFindingsText ==
    "[{\"title\": \"SQL Injection\", \"severity\": \"HIGH\", \"code_snippet\": \""
    \o Fence \o "sql\\nSELECT 1\\n" \o Fence \o "\"}]"

ExtractTexts ==
    {"[]", FindingsText(<<HIGH>>), FindingsText(<<CRITICAL, LOW>>), SnippetFindingsText,
     "", "No issues.", "{\"issues\": []}", "[1] and [2]", "[ never closed", Fence \o "json\n[]" \o RuneAt(11) \o Fence,
     "] reversed [", "a { b } c [ d ] e }", Fence \o "json\n[1]",
     Fence \o "\n{\"a\": 1}\n" \o Fence, Fence \o "javascript\n[2]\n" \o Fence,
     Fence \o Fence, "See [note]: " \o Fence \o "json  [3]  " \o Fence \o " and {x}"}

Fenced(text) == Fence \o "json\n" \o text \o "\n" \o Fence

InProse(text) == "Here are the findings:\n" \o text \o "\nLet me know if you need more."

ReplyForms == {"raw", "fenced", "prose"}

ReplyIn(form, text) ==
    CASE form = "fenced" -> Fenced(text)
      [] form = "prose" -> InProse(text)
      [] OTHER -> text

InitExtract ==
    /\ ServerInit
    /\ baseURL = NewLLMService("")
    /\ dcode = ""
    /\ dpath = ""
    /\ dret = <<>>
    /\ ain \in {AnalyzerInput("", JAVA, "", Reply(TRUE, StatusOK, "content", text)) :
                  text \in ExtractTexts}
    /\ aret = <<>>

\* ba.extractJSON(response)
CallExtractJSON ==
    /\ Len(aret) < MaxInvocations
    /\ \E form \in ReplyForms :
          aret' = Append(aret, AnalyzerInvocation("extractJSON",
                                                  ReplyIn(form, ain.reply.content),
                                                  extractJSON(ReplyIn(form, ain.reply.content)),
                                                  NoAnalysis))
    /\ UNCHANGED ain
    /\ UNCHANGED serverVars
    /\ UNCHANGED detectorVars

NextExtract == CallExtractJSON

SpecExtract == InitExtract /\ [][NextExtract]_vars

(***************************************************************************)
(* FormatAsMarkdown called on the result of an analysis that succeeded, as *)
(* handleAnalyzeSecurity calls it.                                         *)
(***************************************************************************)
ReportSeverityLists ==
    SeverityLists \cup {<<LOW, CRITICAL, LOW>>, <<MEDIUM, "INFO", HIGH, MEDIUM>>}

ReportReplies ==
    AnalyzeReplies \cup SuppliedReplies
    \cup {Reply(TRUE, StatusOK, "content", FindingsText(sevs)) : sevs \in ReportSeverityLists}

InitReport ==
    /\ ServerInit
    /\ baseURL = NewLLMService("")
    /\ dcode = ""
    /\ dpath = ""
    /\ dret = <<>>
    /\ ain \in {AnalyzerInput(JavaCode, JAVA, f, r) : f \in {"", "Example.java"}, r \in ReportReplies}
    /\ aret = <<>>

\* The report of an analysis.
Report(content, analysis) ==
    AnalyzerInvocation("FormatAsMarkdown", content, FormatAsMarkdown(analysis.result), analysis)

\* result, err := analyzer.Analyze(...); markdown := ba.FormatAsMarkdown(result)
CallFormatAsMarkdown ==
    /\ Len(aret) < MaxInvocations
    /\ AnalyzeWithLLM(ain.language, ain.filePath, ain.reply).err = ""
    /\ aret' = Append(aret, Report(ain.reply.content,
                                   AnalyzeWithLLM(ain.language, ain.filePath, ain.reply)))
    /\ UNCHANGED ain
    /\ UNCHANGED serverVars
    /\ UNCHANGED detectorVars

NextReport == CallFormatAsMarkdown

SpecReport == InitReport /\ [][NextReport]_vars

(***************************************************************************)
(* The properties.  A state with pc = "loop" is the end of one iteration   *)
(* of Run: line is the line it read and resp the line it wrote.            *)
(***************************************************************************)
\* The current iteration has decoded its line into a request.
Decoded == line.form \notin {"none", "empty"} /\ Unmarshal(line).err = ""

\* The id member of the request as it stands in the input line; a request
\* without id member has the id null.
WireId == IF line.id = JAbsent THEN JNull ELSE line.id

\* The number of response lines written for the input line at position k.
ResponsesTo(k) == Cardinality({i \in 1..Len(answered) : answered[i] = k})

\* C1: each non-blank line that does not decode as a request envelope gets
\* exactly one error response with code -32700 and a null id, and no input
\* line, whatever its content or length, makes the read loop stop before the
\* end of the input.
C1_ParseErrorAndReadOn ==
    /\ (pc = "loop" /\ line.form # "empty" /\ Unmarshal(line).err # "")
          => /\ resp.members = {"jsonrpc", "id", "error"}
             /\ resp.error.code = -32700
             /\ resp.id = JNull
             /\ ResponsesTo(nread) = 1
    /\ (pc = "exit" => eof)

\* C2: one response line is written for each non-blank input line and none
\* for a blank line, the k-th response answers the k-th non-blank line, and
\* the response to a line is written, backend call included, before the next
\* line is read: between iterations the lines answered are the non-blank
\* lines read, and during a backend call only the current line is unanswered.
C2_OneResponsePerLineInOrder ==
    /\ pc \in {"scan", "loop", "exit"} => answered = nonblank
    /\ pc \in {"analyze", "probe"} => nonblank = Append(answered, nread)

\* C3: the response to a successfully decoded request carries the id of the
\* request, null when the request has a null id or none.
C3_IdEchoed ==
    (pc = "loop" /\ Decoded) => (resp.members # {} /\ resp.id = WireId)

\* C4: every response line written has exactly one of the members result and
\* error, never both and never neither; a result is a payload (not null) and
\* an error carries its code and message.
C4_ResultXorError ==
    resp.members # {}
       => /\ ("result" \in resp.members) # ("error" \in resp.members)
          /\ "result" \in resp.members => (resp.result.kind # "nil" /\ resp.error.isNil)
          /\ "error" \in resp.members => (~resp.error.isNil /\ resp.result.kind = "nil")

\* An analysis that failed after its backend call was answered with an error
\* and no result.
C4_Witness ==
    /\ pc = "loop"
    /\ handler = "analyze_security"
    /\ reply # NoReply
    /\ resp.members = {"jsonrpc", "id", "error"}

\* The tools handleToolsCall dispatches to.
Tools == {"analyze_security", "health_check", "list_supported_languages"}

\* The current iteration has decoded a tools/call request.
ToolsCall == Decoded /\ Request.Method = "tools/call"

\* The tool name of the request is one handleToolsCall dispatches.
ToolNamed == IsGoString(Request.Params.name) /\ AsGoString(Request.Params.name) \in Tools

\* C5: a decoded request whose method is none of initialize, tools/list and
\* tools/call (an empty or missing method included) gets an error response
\* with code -32601 that echoes the id of the request, and runs no tool
\* handler, no classifier and no backend call.
C5_MethodNotFound ==
    (pc = "loop" /\ Decoded /\ Request.Method \notin {"initialize", "tools/list", "tools/call"})
       => /\ resp.members = {"jsonrpc", "id", "error"}
          /\ resp.error.code = -32601
          /\ resp.id = WireId
          /\ handler = ""
          /\ detected = <<>>
          /\ calls = <<>>
          /\ reply = NoReply

\* C6: a tools/call request whose tool name is missing, is no string or is
\* none of the three tools gets an error response with code -32602 without a
\* backend call, and exactly the three names are dispatched to a handler.
C6_InvalidToolName ==
    ToolsCall
       => /\ ~ToolNamed
             => /\ pc = "loop"
                /\ resp.members = {"jsonrpc", "id", "error"}
                /\ resp.error.code = -32602
                /\ handler = ""
                /\ calls = <<>>
                /\ reply = NoReply
          /\ ToolNamed => handler = AsGoString(Request.Params.name)
          /\ handler \in Tools => ToolNamed

\* A call of a tool that does not exist was answered.
C6_Witness ==
    /\ pc = "loop"
    /\ ToolsCall
    /\ Request.Params.name = GoString("analyze")
    /\ resp.error.code = -32602

\* The current iteration has decoded a call of analyze_security; its
\* arguments as handleAnalyzeSecurity reads them.
AnalyzeCall ==
    ToolsCall /\ IsGoString(Request.Params.name)
              /\ AsGoString(Request.Params.name) = "analyze_security"
CodeArg == Request.Params.arguments.code
FilePathArg == AsGoString(Request.Params.arguments.file_path)
LanguageArg == AsGoString(Request.Params.arguments.language)
CodeValid == IsGoString(CodeArg) /\ AsGoString(CodeArg) # ""

\* The response is an error with code -32602 and nothing was sent to the
\* backend.
Rejected ==
    /\ pc = "loop"
    /\ resp.members = {"jsonrpc", "id", "error"}
    /\ resp.error.code = -32602
    /\ calls = <<>>
    /\ reply = NoReply

\* C7: an analyze_security call that fails validation is rejected with code
\* -32602 before any backend call: with code missing, no string or empty,
\* before the classifier runs; with a resolved language tag that has no
\* registered analyzer, as an unsupported language.
C7_RejectedBeforeBackend ==
    AnalyzeCall
       => /\ ~CodeValid => (Rejected /\ detected = <<>>)
          /\ (CodeValid /\ language \notin DOMAIN analyzers)
                => (Rejected /\ resp.error.message = "Unsupported language: " \o language)
          /\ calls # <<>> => (CodeValid /\ language \in DOMAIN analyzers)

\* Code that no signature matches and no path: the classifier ran, its tag
\* unknown has no analyzer, and the call was rejected.
C7_Witness ==
    /\ AnalyzeCall
    /\ Rejected
    /\ AsGoString(CodeArg) = UnknownCode
    /\ Len(detected) = 1
    /\ language = UNKNOWN

\* The rule prompt of the analyzer NewMCPServer registers for a tag.
RegisteredPrompt(tag) ==
    CASE tag = JAVA -> JavaRulesPrompt
      [] tag = CSHARP -> CSharpRulesPrompt
      [] tag = REACT_TYPESCRIPT -> ReactRulesPrompt \o TypeScriptRules
      [] tag = REACT_JAVASCRIPT -> ReactRulesPrompt
      [] OTHER -> ""

\* C8: in analyze_security a language argument that is a non-empty string
\* other than "auto" is the resolved tag and the classifier is not consulted;
\* otherwise the resolved tag is the classifier's result for the code and the
\* file path; the rule prompt sent to the backend is that of the analyzer
\* registered for the resolved tag.
C8_LanguageResolution ==
    (AnalyzeCall /\ CodeValid)
       => /\ LanguageArg \notin {"", "auto"} => (language = LanguageArg /\ detected = <<>>)
          /\ LanguageArg \in {"", "auto"}
                => /\ Len(detected) = 1
                   /\ detected[1] \in Detect(AsGoString(CodeArg), FilePathArg)
                   /\ language = detected[1].ret
          /\ calls # <<>> => calls[1].prompt = RegisteredPrompt(language)
          /\ (pc = "analyze") = (language \in {JAVA, CSHARP, REACT_TYPESCRIPT, REACT_JAVASCRIPT}
                                 /\ reply = NoReply)

\* Java code in a .java file sent with the language csharp: the C# prompt
\* went to the backend and the classifier did not run.
C8_Witness ==
    /\ pc = "analyze"
    /\ AnalyzeCall
    /\ AsGoString(CodeArg) = JavaCode
    /\ FilePathArg = "Example.java"
    /\ LanguageArg = "csharp"
    /\ detected = <<>>
    /\ calls[1].prompt = CSharpRulesPrompt

\* C9: health_check never answers with an error: whatever the backend does,
\* the response is a result with the status healthy, the backend status
\* available exactly when the probe was answered with the HTTP status 200 OK
\* and unavailable otherwise, and the registered analyzer tags, each once.
C9_HealthNeverFails ==
    (pc = "loop" /\ handler = "health_check")
       => /\ resp.members = {"jsonrpc", "id", "result"}
          /\ resp.result.kind = "health"
          /\ resp.result.health.Status = "healthy"
          /\ resp.result.health.LLMServiceStatus =
                (IF reply.transport /\ reply.status = 200 THEN "available" ELSE "unavailable")
          /\ {resp.result.health.SupportedLanguages[i] :
                 i \in 1..Len(resp.result.health.SupportedLanguages)} = DOMAIN analyzers
          /\ Len(resp.result.health.SupportedLanguages) = Cardinality(DOMAIN analyzers)
          /\ DOMAIN analyzers = {JAVA, CSHARP, REACT_TYPESCRIPT, REACT_JAVASCRIPT}

\* The backend answered the probe with a status other than 200 and the
\* response reports it unavailable.
C9_Witness ==
    /\ pc = "loop"
    /\ handler = "health_check"
    /\ reply.transport
    /\ reply.status # 200
    /\ resp.result.health.LLMServiceStatus = "unavailable"

\* C10: classification is deterministic: on the same code body and file path
\* every invocation of DetectFromContent, and every invocation of Detect,
\* returns the same tag, also when two or more languages share the top score.
C10_Deterministic ==
    \A i, j \in 1..Len(dret) : dret[i].fn = dret[j].fn => dret[i].ret = dret[j].ret

\* C11: an analyze_security call with the code "public class X{}", no file
\* path and no language argument is classified by the content stage as Java,
\* and the backend is called with the Java rule prompt, never with the C# or
\* the React prompt.
C11_ClassXIsJava ==
    (AnalyzeCall /\ CodeArg = GoString(ClassCode)
                 /\ line.args.file_path = JAbsent /\ line.args.language = JAbsent)
       => /\ Len(detected) = 1
          /\ detected[1].content = <<JAVA>>
          /\ language = JAVA
          /\ Len(calls) = 1
          /\ calls[1].prompt = JavaRulesPrompt

\* The number of signatures of a language that match the code body.
Score(lang) == Cardinality(MatchingPatterns(lang, dcode))

\* The invocations of a function of the detector made so far.
InvocationsOf(fn) == {i \in 1..Len(dret) : dret[i].fn = fn}

\* C12: DetectFromContent returns unknown exactly when no signature of any
\* language matches the code, never a language none of whose signatures
\* matches, and the language whose number of matching signatures is strictly
\* greater than that of every other language when there is one; so the code
\* bodies of TestDetectFromContent get the tags the test expects.
C12_ContentScores ==
    \A i \in InvocationsOf("DetectFromContent") :
        /\ dret[i].ret = UNKNOWN <=> \A lang \in PatternLanguages : Score(lang) = 0
        /\ dret[i].ret # UNKNOWN => (dret[i].ret \in PatternLanguages /\ Score(dret[i].ret) > 0)
        /\ \A lang \in PatternLanguages :
              (\A other \in PatternLanguages \ {lang} : Score(lang) > Score(other))
                 => dret[i].ret = lang
        /\ dcode = JavaCode => dret[i].ret = JAVA
        /\ dcode = CSharpCode => dret[i].ret = CSHARP
        /\ dcode = TsxCode => dret[i].ret = REACT_TYPESCRIPT
        /\ dcode = JsxCode => dret[i].ret = REACT_JAVASCRIPT
        /\ dcode = UnknownCode => dret[i].ret = UNKNOWN

\* C# code that signatures of all four languages match was classified: the
\* C# signatures are the most.
C12_Witness ==
    /\ dcode = CSharpCode
    /\ \A lang \in PatternLanguages : Score(lang) > 0
    /\ \E i \in InvocationsOf("DetectFromContent") : dret[i].ret = CSHARP

\* The path ends in the extension e, whatever the case of its letters.
HasExtension(path, e) ==
    /\ Len(path) >= Len(e)
    /\ ToLower(SubSeq(path, Len(path) - Len(e) + 1, Len(path))) = e

\* The fixed table of extensions.
TableTag(path) ==
    CASE HasExtension(path, ".java") -> JAVA
      [] HasExtension(path, ".cs") -> CSHARP
      [] HasExtension(path, ".tsx") \/ HasExtension(path, ".ts") -> REACT_TYPESCRIPT
      [] HasExtension(path, ".jsx") \/ HasExtension(path, ".js") -> REACT_JAVASCRIPT
      [] OTHER -> UNKNOWN

\* C13: DetectFromExtension returns the tag the fixed table gives for the
\* extension of the path, compared without regard to case, and unknown for
\* an empty path, a path without extension and any other extension; for a
\* path ending in .java or .cs Detect returns the tag of the table for every
\* code body, the empty one included, and does not run the content stage.
C13_ExtensionTable ==
    /\ \A i \in InvocationsOf("DetectFromExtension") :
          /\ dret[i].ret = TableTag(dpath)
          /\ dpath \in {"", "README", "src.cs/README", "example.py", "Example.java.txt"}
                => dret[i].ret = UNKNOWN
    /\ \A i \in InvocationsOf("Detect") :
          TableTag(dpath) \in {JAVA, CSHARP}
             => (dret[i].ret = TableTag(dpath) /\ dret[i].content = <<>>)

\* C# code in a file named MAIN.JAVA: the extension stage and Detect both
\* answered java, and Detect did not look at the code.
C13_Witness ==
    /\ dpath = "MAIN.JAVA"
    /\ dcode = CSharpCode
    /\ \E i \in InvocationsOf("DetectFromExtension") : dret[i].ret = JAVA
    /\ \E i \in InvocationsOf("Detect") : dret[i].ret = JAVA /\ dret[i].content = <<>>

\* C14: for a path with a React extension Detect returns the verdict of the
\* content stage on the code, which is the tag of the extension only if the
\* content stage says so; without a path, or with an extension outside the
\* table, Detect returns the verdict of the content stage; a .tsx path with
\* the React TypeScript code of the tests gives react_typescript.
C14_ReactExtension ==
    \A i \in InvocationsOf("Detect") :
        /\ (IsReact(TableTag(dpath)) \/ TableTag(dpath) = UNKNOWN)
              => /\ Len(dret[i].content) >= 1
                 /\ dret[i].ret = dret[i].content[1]
        /\ TableTag(dpath) = UNKNOWN => Len(dret[i].content) = 1
        /\ (dpath = "Component.tsx" /\ dcode \in {TsxCode, TsxFCCode})
              => dret[i].ret = REACT_TYPESCRIPT

\* The invocations of a function of the analyzer made so far.
AnalyzerInvocationsOf(fn) == {i \in 1..Len(aret) : aret[i].fn = fn}

\* The number of newlines of a text.
Newlines(text) == Cardinality({k \in 1..Len(text) : SubSeq(text, k, k) = "\n"})

\* C15: for the languages java, csharp, react_typescript and
\* react_javascript PreprocessCode returns a text with as many newlines as
\* the code it was given, block comments over several lines included; for
\* any other language tag it returns the code unchanged.
C15_NewlinesPreserved ==
    \A i \in AnalyzerInvocationsOf("PreprocessCode") :
        IF ain.language \in {JAVA, CSHARP, REACT_TYPESCRIPT, REACT_JAVASCRIPT}
        THEN Newlines(aret[i].text) = Newlines(ain.code)
        ELSE aret[i].text = ain.code

\* A backend call with the answer r fails: no request, no answer, a status
\* other than 200, a body that cannot be read or is no completion, or no
\* choice in it.
CallFailed(r) ==
    \/ ~r.created
    \/ ~r.transport
    \/ r.status # 200
    \/ r.body \in {"unreadable", "undecodable", "nochoices"}

\* The backend call of the current iteration failed.
BackendFailed == reply # NoReply /\ CallFailed(reply)

\* C16: when the backend call of an analyze_security request fails, the
\* request ends with an error and no result, the backend was called once and
\* not again, and the response is an error with code -32603 that carries the
\* id of the request.
C16_BackendFailure ==
    /\ Len(calls) <= 1
    /\ (AnalyzeCall /\ BackendFailed)
          => /\ pc = "loop"
             /\ Len(calls) = 1
             /\ resp.members = {"jsonrpc", "id", "error"}
             /\ resp.error.code = -32603
             /\ resp.result.kind = "nil"
             /\ resp.id = WireId

\* The backend answered the call of the current iteration with a text, and
\* no findings could be decoded from it.
ExtractionFailed ==
    /\ reply # NoReply
    /\ ~BackendFailed
    /\ parseIssuesFromResponse(reply.content, FilePathArg).err

\* The kind of failure (or "") the request of the current iteration would
\* end in if the backend answered with r.
FailureKind(r) ==
    IF CallFailed(r) THEN "backend"
    ELSE IF parseIssuesFromResponse(r.content, FilePathArg).err THEN "extraction"
    ELSE ""

\* C17: the error response of an analyze_security request tells a backend
\* failure from an extraction failure: the message of the first begins with
\* "Analysis failed: LLM analysis failed: ", that of the second with
\* "Analysis failed: failed to parse LLM response: ", and no answer of the
\* backend that is a failure of the other kind gives the same response.
C17_FailuresDistinct ==
    (pc = "loop" /\ AnalyzeCall /\ reply # NoReply)
       => /\ BackendFailed
             => HasAt(resp.error.message, 1, "Analysis failed: LLM analysis failed: ")
          /\ ExtractionFailed
             => HasAt(resp.error.message, 1, "Analysis failed: failed to parse LLM response: ")
          /\ (BackendFailed \/ ExtractionFailed)
             => \A r \in AnalyzeReplies \cup {NotCreated} :
                   (FailureKind(r) # "" /\ FailureKind(r) # FailureKind(reply))
                      => handleAnalyzeSecurityReturn(Request.ID, analyzers,
                                                     Request.Params.arguments, language, r)
                            # resp

\* The backend answered with a text that holds no JSON, and the request got
\* the error of a reply that could not be parsed.
C17_Witness ==
    /\ pc = "loop"
    /\ AnalyzeCall
    /\ ExtractionFailed
    /\ reply.content = "No issues."
    /\ resp.error.code = -32603
    /\ resp.error.message
          = "Analysis failed: failed to parse LLM response: failed to parse issues"

\* The results AnalyzeWithLLM has returned without error.
AnalysisResults ==
    {aret[i].analysis.result : i \in {k \in AnalyzerInvocationsOf("AnalyzeWithLLM") :
                                          aret[k].analysis.err = ""}}

\* C18: in every AnalysisResult the critical, high, medium and low counts of
\* the metadata add up to the number of findings, and the total count of the
\* metadata is that number.
C18_CountsSumToLength ==
    \A result \in AnalysisResults :
        /\ result.AnalysisMetadata.CriticalCount + result.AnalysisMetadata.HighCount
           + result.AnalysisMetadata.MediumCount + result.AnalysisMetadata.LowCount
              = Len(result.Issues)
        /\ result.AnalysisMetadata.IssuesFound = Len(result.Issues)

\* The number of findings of a result that have a given severity.
FindingsOf(result, sev) ==
    Cardinality({k \in 1..Len(result.Issues) : result.Issues[k].Severity = sev})

\* All findings of a result have one of the four severities.
KnownSeverities(result) ==
    \A k \in 1..Len(result.Issues) : result.Issues[k].Severity \in {CRITICAL, HIGH, MEDIUM, LOW}

\* C19: for a result whose N findings all have one of the four severities,
\* the summary is "No security issues detected." when N = 0 and otherwise
\* "Found N security issue(s): C critical, H high, M medium, L low." with
\* the numbers of findings of each severity, which are the counts of the
\* metadata and add up to N.
C19_SummaryCounts ==
    \A result \in AnalysisResults :
        KnownSeverities(result)
           => /\ Len(result.Issues) = 0 => result.Summary = "No security issues detected."
              /\ Len(result.Issues) > 0
                    => result.Summary
                          = "Found " \o Itoa(Len(result.Issues)) \o " security issue(s): "
                             \o Itoa(FindingsOf(result, CRITICAL)) \o " critical, "
                             \o Itoa(FindingsOf(result, HIGH)) \o " high, "
                             \o Itoa(FindingsOf(result, MEDIUM)) \o " medium, "
                             \o Itoa(FindingsOf(result, LOW)) \o " low."
              /\ result.AnalysisMetadata.CriticalCount = FindingsOf(result, CRITICAL)
              /\ result.AnalysisMetadata.HighCount = FindingsOf(result, HIGH)
              /\ result.AnalysisMetadata.MediumCount = FindingsOf(result, MEDIUM)
              /\ result.AnalysisMetadata.LowCount = FindingsOf(result, LOW)
              /\ FindingsOf(result, CRITICAL) + FindingsOf(result, HIGH)
                 + FindingsOf(result, MEDIUM) + FindingsOf(result, LOW) = Len(result.Issues)

\* A critical, a medium and a low finding were summarised.
C19_Witness ==
    \E result \in AnalysisResults :
        /\ Len(result.Issues) = 3
        /\ KnownSeverities(result)
        /\ result.Summary = "Found 3 security issue(s): 1 critical, 0 high, 1 medium, 1 low."

\* The responses a server that has just started gives to the line l when the
\* backend, if the request calls it, answers with r.
FreshAnswer(l, step, r) ==
    CASE step.wait = "analyze" ->
            {handleAnalyzeSecurityReturn(Unmarshal(l).request.ID, NewMCPServer,
                                         Unmarshal(l).request.Params.arguments,
                                         step.language, r)}
      [] step.wait = "probe" ->
            handleHealthCheckReturn(Unmarshal(l).request.ID, NewMCPServer, r)
      [] OTHER -> {step.resp}

FreshResponses(l, r) ==
    UNION {FreshAnswer(l, step, r) : step \in RunBody(l, NewMCPServer)}

\* C20: no request changes state shared by the requests: the analyzers map
\* is at every moment the one NewMCPServer built, and the response to a
\* request is one that a server that has just started gives to the same
\* line with the same answer of the backend, whatever was processed before.
C20_NoSharedState ==
    /\ analyzers = NewMCPServer
    /\ pc = "loop" => resp \in FreshResponses(line, reply)

\* A second request was analysed with success after the first request had
\* been answered.
C20_Witness ==
    /\ pc = "loop"
    /\ nread = 2
    /\ answered = <<1, 2>>
    /\ handler = "analyze_security"
    /\ resp.result.kind # "nil"

\* The analysis of a backend answer fails: the backend call fails, or no
\* findings can be decoded from the text of the answer.
AnalysisFails(r) == CallFailed(r) \/ parseIssuesFromResponse(r.content, "").err

\* C21: when an analysis fails, by a backend failure or by a reply that
\* cannot be parsed, AnalyzeWithLLM hands its caller a partial result whose
\* metadata carries error notes that describe the failure.
C21_PartialResultOnFailure ==
    \A i \in AnalyzerInvocationsOf("AnalyzeWithLLM") :
        AnalysisFails(ain.reply)
           => /\ aret[i].analysis.result # NoResult
              /\ aret[i].analysis.result.AnalysisMetadata.Errors # <<>>

\* The first fenced block of a text: the position of the earliest fence that
\* has another fence after it, the position where the inner text starts
\* (after the fence and an optional json tag) and the position of the fence
\* that closes the block.
BlockStarts(text) ==
    {i \in 1..Len(text) :
        /\ HasAt(text, i, Fence)
        /\ \E j \in (i + 3)..Len(text) : HasAt(text, j, Fence)}

FirstBlock(text) == CHOOSE i \in BlockStarts(text) : \A j \in BlockStarts(text) : i <= j

InnerStart(text) ==
    IF HasAt(text, FirstBlock(text) + 3, "json") THEN FirstBlock(text) + 7
    ELSE FirstBlock(text) + 3

InnerEnd(text) ==
    CHOOSE j \in InnerStart(text)..Len(text) :
        /\ HasAt(text, j, Fence)
        /\ \A k \in InnerStart(text)..(j - 1) : ~HasAt(text, k, Fence)

\* The first delimited substring of a text: from the earliest "[" that has a
\* "]" after it, or "{" that has a "}" after it, to the last such closer.
Closer(c) == IF c = "[" THEN "]" ELSE IF c = "{" THEN "}" ELSE ""

Closers(text, i) ==
    {j \in (i + 1)..Len(text) : SubSeq(text, j, j) = Closer(SubSeq(text, i, i))}

Openers(text) == {i \in 1..Len(text) : Closers(text, i) # {}}

FirstOpener(text) == CHOOSE i \in Openers(text) : \A j \in Openers(text) : i <= j

LastCloser(text) ==
    CHOOSE j \in Closers(text, FirstOpener(text)) :
        \A k \in Closers(text, FirstOpener(text)) : j >= k

\* C22: extractJSON tries its strategies in a fixed order: for a reply with
\* a fenced block it returns the inner text of the first block, without the
\* white space around it; else for a reply with a bracket-delimited or
\* brace-delimited substring it returns the first one; else it returns the
\* reply as it is.
C22_ExtractionOrder ==
    \A i \in AnalyzerInvocationsOf("extractJSON") :
        IF BlockStarts(aret[i].arg) # {}
        THEN aret[i].text
                = TrimSpace(SubSeq(aret[i].arg, InnerStart(aret[i].arg), InnerEnd(aret[i].arg) - 1))
        ELSE IF Openers(aret[i].arg) # {}
        THEN aret[i].text
                = SubSeq(aret[i].arg, FirstOpener(aret[i].arg), LastCloser(aret[i].arg))
        ELSE aret[i].text = aret[i].arg

\* A reply with a bracket before its fenced block: the inner text of the
\* block was returned.
C22_Witness ==
    \E i \in AnalyzerInvocationsOf("extractJSON") :
        /\ aret[i].arg = "See [note]: " \o Fence \o "json  [3]  " \o Fence \o " and {x}"
        /\ aret[i].text = "[3]"

\* The text given to the analyzer is the text of an array of findings.
IsFindingsArrayText(text) == HasAt(text, 1, "[") /\ ~UnmarshalIssues(text).err

\* C23: for a findings array text, extractJSON returns that same text when
\* it is given the text alone, the text inside a fenced json block, and the
\* text inside prose.
C23_SameArrayFromThreeForms ==
    IsFindingsArrayText(ain.reply.content)
       => \A i \in AnalyzerInvocationsOf("extractJSON") : aret[i].text = ain.reply.content

\* The backend has answered the analyzer with a text.
BackendReplied == ain.reply.transport /\ ain.reply.status = 200 /\ ain.reply.body = "content"

\* The JSON value of the text extracted from the reply.
ExtractedValue == ParseJSON(extractJSON(ain.reply.content))

\* The extracted text is an array, or an object with an issues array member.
IsArrayValue == ExtractedValue.ok /\ ExtractedValue.v.t = "array"

IsIssuesObject ==
    /\ ExtractedValue.ok
    /\ ExtractedValue.v.t = "object"
    /\ \E k \in 1..Len(ExtractedValue.v.keys) :
          ExtractedValue.v.keys[k] = "issues" /\ ExtractedValue.v.items[k].t = "array"

\* C24: the extracted text is decoded as an array of findings first, and as
\* an object with an issues array only if that fails; when it is neither,
\* the pipeline fails with a parse error and no result, so that an unexpected
\* reply is never a successful analysis with zero findings.
C24_ArrayThenWrapperElseError ==
    \A i \in AnalyzerInvocationsOf("AnalyzeWithLLM") :
        BackendReplied
           => /\ ~UnmarshalIssues(extractJSON(ain.reply.content)).err
                    => /\ aret[i].analysis.err = ""
                       /\ Len(aret[i].analysis.result.Issues)
                             = Len(UnmarshalIssues(extractJSON(ain.reply.content)).issues)
              /\ (~IsArrayValue /\ ~IsIssuesObject)
                    => /\ HasAt(aret[i].analysis.err, 1, "failed to parse LLM response")
                       /\ aret[i].analysis.result = NoResult

\* The findings as decoded from the extracted text, before the enrichment.
DecodedFindings(jsonStr) ==
    IF ~UnmarshalIssues(jsonStr).err THEN UnmarshalIssues(jsonStr).issues
    ELSE UnmarshalWrapper(jsonStr).issues

\* The findings before are the findings after but for the two fields.
EnrichedFrom(before, after, filePath) ==
    /\ Len(after) = Len(before)
    /\ \A k \in 1..Len(before) :
          /\ after[k].ID = (IF before[k].ID = "" THEN "ISSUE-" \o Itoa(k) ELSE before[k].ID)
          /\ after[k].FilePath
                = (IF before[k].FilePath = "" THEN filePath ELSE before[k].FilePath)
          /\ [after[k] EXCEPT !.ID = "", !.FilePath = ""]
                = [before[k] EXCEPT !.ID = "", !.FilePath = ""]
          /\ after[k].ID # ""

\* C25: the enrichment keeps the number and the order of the decoded
\* findings; a finding at position i without identifier gets ISSUE-i, a
\* finding without file path gets the request's file path, identifiers and
\* file paths of the backend and every other field stay as they were, and
\* afterwards every finding has an identifier.
C25_EnrichmentFillsEmptyFields ==
    \A i \in AnalyzerInvocationsOf("AnalyzeWithLLM") :
        aret[i].analysis.err = ""
           => EnrichedFrom(DecodedFindings(extractJSON(ain.reply.content)),
                           aret[i].analysis.result.Issues, ain.filePath)

\* An analysis for a path whose decoded findings mix given and missing
\* identifiers and file paths.
MixedFindings(before) ==
    /\ \E k \in 2..Len(before) : before[k].ID = "" /\ before[k].FilePath = ""
    /\ \E k \in 1..Len(before) : before[k].ID # ""
    /\ \E k \in 1..Len(before) : before[k].FilePath # ""

C25_Witness ==
    \E i \in AnalyzerInvocationsOf("AnalyzeWithLLM") :
        /\ aret[i].analysis.err = ""
        /\ ain.filePath # ""
        /\ MixedFindings(DecodedFindings(extractJSON(ain.reply.content)))

\* The positions of a report at which a text occurs.
Occurrences(text, sub) == {p \in 1..Len(text) : HasAt(text, p, sub)}

\* The header of a severity's section, at the start of a line.
SectionHeader(sev) ==
    CASE sev = CRITICAL -> "\n## Critical Issues\n\n"
      [] sev = HIGH -> "\n## High Severity Issues\n\n"
      [] sev = MEDIUM -> "\n## Medium Severity Issues\n\n"
      [] sev = LOW -> "\n## Low Severity Issues\n\n"

SectionRank(sev) ==
    CASE sev = CRITICAL -> 1 [] sev = HIGH -> 2 [] sev = MEDIUM -> 3 [] sev = LOW -> 4

SectionSeverities == {CRITICAL, HIGH, MEDIUM, LOW}

\* The first lines of a finding's entry.
EntryStart(issue) ==
    "\n### " \o issue.Title \o "\n\n**Severity**: " \o issue.Severity \o "\n\n"

\* The severity of the section a position of the report lies in.
SectionAt(text, p) ==
    {sev \in SectionSeverities :
        \E h \in Occurrences(text, SectionHeader(sev)) :
            /\ h < p
            /\ \A other \in SectionSeverities :
                  \A g \in Occurrences(text, SectionHeader(other)) : g <= h \/ g > p}

\* The headers of a report are those of the severities that have findings,
\* each once, in the order critical, high, medium, low.
HeadersInOrder(text, issues) ==
    /\ \A sev \in SectionSeverities :
          Cardinality(Occurrences(text, SectionHeader(sev)))
             = (IF \E k \in 1..Len(issues) : issues[k].Severity = sev THEN 1 ELSE 0)
    /\ \A a, b \in SectionSeverities :
          SectionRank(a) < SectionRank(b)
             => \A p \in Occurrences(text, SectionHeader(a)) :
                   \A q \in Occurrences(text, SectionHeader(b)) : p < q

\* The findings of the four severities are listed in their section, in
\* their order in the result.
EntriesInOrder(text, issues) ==
    /\ \A k \in 1..Len(issues) :
          issues[k].Severity \in SectionSeverities
             => /\ Cardinality(Occurrences(text, EntryStart(issues[k]))) = 1
                /\ \A p \in Occurrences(text, EntryStart(issues[k])) :
                      SectionAt(text, p) = {issues[k].Severity}
    /\ \A j, k \in 1..Len(issues) :
          (j < k /\ issues[j].Severity = issues[k].Severity
                 /\ issues[k].Severity \in SectionSeverities)
             => \A p \in Occurrences(text, EntryStart(issues[j])) :
                   \A q \in Occurrences(text, EntryStart(issues[k])) : p < q

\* C26: for a result with at least one finding the report has the sections
\* in the order critical, high, medium, low, a header only for a severity
\* with at least one finding, and in each section the findings of that
\* severity in their relative order in the result.
C26_SectionsInOrder ==
    \A i \in AnalyzerInvocationsOf("FormatAsMarkdown") :
        Len(aret[i].analysis.result.Issues) > 0
           => /\ HeadersInOrder(aret[i].text, aret[i].analysis.result.Issues)
              /\ EntriesInOrder(aret[i].text, aret[i].analysis.result.Issues)

\* A report of a result whose findings are not in the order of the sections
\* and that has two findings of one severity around another one.
C26_Witness ==
    \E i \in AnalyzerInvocationsOf("FormatAsMarkdown") :
        \E j, k, l \in 1..Len(aret[i].analysis.result.Issues) :
            /\ j < k /\ k < l
            /\ aret[i].analysis.result.Issues[j].Severity = LOW
            /\ aret[i].analysis.result.Issues[k].Severity = CRITICAL
            /\ aret[i].analysis.result.Issues[l].Severity = LOW

\* The title, language, elapsed time and summary of a report.
ReportHead(result) ==
    "# Security Analysis Report\n\n"
    \o "**Language**: " \o result.Language \o "\n\n"
    \o "**Analysis Time**: " \o result.AnalysisMetadata.AnalysisTime \o "\n\n"
    \o "## Summary\n\n" \o result.Summary \o "\n\n"

NoFindingsLine == "No security issues found."

\* C27: for a result without findings the report after the title, language,
\* elapsed time and summary is the one line "No security issues found.",
\* without section header and without entry; the line is written only when
\* the result has no findings.
C27_NoFindingsLine ==
    \A i \in AnalyzerInvocationsOf("FormatAsMarkdown") :
        /\ Len(aret[i].analysis.result.Issues) = 0
              => /\ aret[i].text = ReportHead(aret[i].analysis.result) \o NoFindingsLine \o "\n"
                 /\ \A sev \in SectionSeverities :
                       Occurrences(aret[i].text, SectionHeader(sev)) = {}
                 /\ Occurrences(aret[i].text, "\n### ") = {}
        /\ Len(aret[i].analysis.result.Issues) > 0
              => Occurrences(aret[i].text, NoFindingsLine) = {}

\* A report of a result without findings.
C27_Witness ==
    \E i \in AnalyzerInvocationsOf("FormatAsMarkdown") :
        /\ Len(aret[i].analysis.result.Issues) = 0
        /\ Occurrences(aret[i].text, NoFindingsLine) # {}

\* C28: every finding of a result is rendered once: the number of entries of
\* the report is the number of findings of the result, whatever their
\* severities.
C28_EveryFindingRendered ==
    \A i \in AnalyzerInvocationsOf("FormatAsMarkdown") :
        /\ Cardinality(Occurrences(aret[i].text, "\n### "))
              = Len(aret[i].analysis.result.Issues)
        /\ \A k \in 1..Len(aret[i].analysis.result.Issues) :
              Cardinality(Occurrences(aret[i].text,
                                      EntryStart(aret[i].analysis.result.Issues[k]))) = 1

\* The non-empty identifiers of a sequence of findings are pairwise distinct.
DistinctIDs(issues) ==
    \A j, k \in 1..Len(issues) :
        (j # k /\ issues[j].ID # "") => issues[j].ID # issues[k].ID

\* C29: the identifiers of the findings of one result are pairwise distinct
\* whenever the identifiers the backend supplied are: a generated identifier
\* is never the identifier of another finding of the result.
C29_IdentifiersDistinct ==
    \A i \in AnalyzerInvocationsOf("AnalyzeWithLLM") :
        (/\ aret[i].analysis.err = ""
         /\ DistinctIDs(DecodedFindings(extractJSON(ain.reply.content))))
           => DistinctIDs(aret[i].analysis.result.Issues)

\* The identifiers of a catalogue of languages.
Identifiers(catalogue) == {catalogue[k].Identifier : k \in 1..Len(catalogue)}

\* Every extension of every entry of a catalogue is mapped to the entry's
\* identifier.
ExtensionsAgree(catalogue) ==
    \A k \in 1..Len(catalogue) :
        \A e \in 1..Len(catalogue[k].Extensions) :
            DetectFromExtension("File" \o catalogue[k].Extensions[e]) = catalogue[k].Identifier

\* C30: the language lists agree: the identifiers of the catalogue of
\* list_supported_languages are the tags with a registered analyzer and the
\* language enum of tools/list without "auto", every extension of a catalogue
\* entry is mapped by DetectFromExtension to the entry's identifier, and every
\* tag the classifier returns other than unknown has a registered analyzer.
C30_LanguageListsAgree ==
    /\ (pc = "loop" /\ handler = "tools/list")
          => /\ {resp.result.enum[k] : k \in 1..Len(resp.result.enum)} \ {"auto"}
                   = DOMAIN analyzers
             /\ Identifiers(GetSupportedLanguages) = DOMAIN analyzers
    /\ (pc = "loop" /\ handler = "list_supported_languages")
          => /\ Identifiers(resp.result.catalogue) = DOMAIN analyzers
             /\ ExtensionsAgree(resp.result.catalogue)
    /\ \A k \in 1..Len(detected) :
          detected[k].ret # UNKNOWN => detected[k].ret \in DOMAIN analyzers

\* The catalogue has been sent after an earlier request had been answered.
C30_Witness ==
    /\ pc = "loop"
    /\ handler = "list_supported_languages"
    /\ Len(resp.result.catalogue) = 4
    /\ Len(answered) > 1

====
